---- MODULE Spec2Model ----
(***************************************************************************)
(* Job pipeline and recovery scheduler of the interview bot.               *)
(*                                                                         *)
(* The interviews collection (Job Store) is the shared state.  Pipeline    *)
(* executions (MessageHandler.process_audio_message), recovery cycles      *)
(* (RecoveryService.run_recovery_cycle) and forced retries                  *)
(* (POST /recovery/interview/{id}) are concurrent asyncio tasks: each      *)
(* holds its own in-memory Interview object and every repository update    *)
(* writes that whole object over the stored document.                      *)
(*                                                                         *)
(* An optional value (Python None) is the empty sequence, a present value  *)
(* v is <<v>>.  A datetime is kept as its age in minutes, now - t: a field *)
(* set to datetime.now() has age 0, every age grows as time passes, and   *)
(* "field < now - m" reads "age > m".  An age stops growing at the largest *)
(* value a comparison in the code can tell apart.                          *)
(***************************************************************************)
EXTENDS Integers, Sequences, FiniteSets, TLC

\* ---------------------------------------------------------------- bounds
\* Largest number of chunks split_into_chunks returns in the model.
MaxChunks == 1
\* Forced retries scheduled but not yet run, at any one time.
MaxForced == 1
\* Permanent-failure messages counted per job.
MaxNotices == 2
\* Largest number of chunks of the job a single pipeline execution is
\* followed through.
MaxLoopChunks == 3
\* A chunk duration setting, in minutes, longer than the default, under
\* which the third chunk starts at the 100th minute.
LongChunkMinutes == 50
\* The audios split are up to MaxSplitSteps steps of 20 seconds long, by
\* chunk durations of up to MaxSplitChunkMinutes minutes and the default.
MaxSplitSteps == 111
MaxSplitChunkMinutes == 3
\* settings.MAX_CACHE_SIZE, an environment setting (1000 unless set): the
\* number of message ids the duplicate cache holds before it is emptied.  A
\* small setting is checked.
MAX_CACHE_SIZE == 2
\* The clock of a ProgressTracker moves in steps of ClockStepSeconds, and as
\* many as MaxSent messages are followed through it.
ClockStepSeconds == 10
MaxSent == 4
\* The collection cleaned holds up to MaxCleanupDocs jobs.
MaxCleanupDocs == 2

\* Inbound audio messages (message ids).
Messages == {"m1"}
\* Task slots for pipeline executions, and recovery cycles running at a time.
Execs == {1, 2}
Cycles == {1}

\* ------------------------------------------------------ program constants
max_processing_time_minutes == 60
max_retry_attempts == 3
retry_delay_minutes == 5
AUDIO_CHUNK_MINUTES == 15
\* "// 60" and "% 60" of _transcribe_simple.
SecondsPerMinute == 60
\* ProgressTracker.heartbeat_interval and min_message_interval, in seconds.
heartbeat_interval == 90
min_message_interval == 30
\* cleanup_old_interviews(days_old = 30), and the fewest days the script
\* cleanup_old accepts ("if days < 7").
DefaultCleanupDays == 30
MinCleanupDays == 7
\* AudioProcessor.max_converted_size_mb, and the bytes of "(1024 * 1024)".
max_converted_size_mb == 25
BytesPerMb == 1048576

\* InterviewStatus
PENDING == "pending"
PROCESSING == "processing"
TRANSCRIBING == "transcribing"
ANALYZING == "analyzing"
COMPLETED == "completed"
FAILED == "failed"

InterviewStatus == {PENDING, PROCESSING, TRANSCRIBING, ANALYZING, COMPLETED, FAILED}

\* Optional values.
None == << >>
Some(v) == << v >>
IsSome(o) == Len(o) = 1
Get(o) == o[1]

\* The error texts the code stores in Interview.error.
ErrPipeline == "processing error"
ErrOrphan == "Recovered from orphaned state"
ErrPermanent == "Permanently failed"

VARIABLES
    processed_messages,  \* messaging.processed_messages
    interviews,          \* the interviews collection: a sequence of documents
    tasks,               \* pipeline executions (background tasks)
    cycles,              \* recovery cycles
    forced,              \* forced retries scheduled by force_retry_interview
    notified,            \* messages sent to the owner of each message, by kind
    reentries,           \* pipeline re-entries started by recovery cycles
    tracker,             \* one ProgressTracker, its heartbeat task and its caller
    sessions             \* UserSessionManager's session of each user

vars == << processed_messages, interviews, tasks, cycles, forced,
           notified, reentries, tracker, sessions >>

\* ------------------------------------------------------------ the entity
\* Interview.id: str(int(datetime.now().timestamp() * 1000)), the
\* millisecond of the creation.  NewId is the id given at an instant later
\* than every creation so far: a value no stored document has.
NewId == Len(interviews) + 1

\* The retry fields of the entity and their defaults (data model: retry_count
\* starts at 0, last_retry_at is optional).
RetryFields == [ retry_count |-> 0, last_retry_at |-> None ]

\* What process_audio_message sets on the new Interview when the user's
\* session holds custom instructions: interview.custom_instructions.
PromptFields == [ custom_instructions |-> None ]

\* Interview(phone_number, message_id, audio_id): a new entity with the
\* field defaults.
Interview(id, message_id) ==
    [ id              |-> id,
      message_id      |-> message_id,
      status          |-> PENDING,
      chunks_total    |-> 0,
      chunks_processed |-> 0,
      transcript      |-> None,
      analysis        |-> None,
      started_at      |-> None,
      completed_at    |-> None,
      error           |-> None ] @@ RetryFields @@ PromptFields

NewInterview(message_id) == Interview(NewId, message_id)

mark_processing(iv) ==
    [iv EXCEPT !.status = PROCESSING, !.started_at = Some(0)]

mark_completed(iv) ==
    [iv EXCEPT !.status = COMPLETED, !.completed_at = Some(0)]

\* A mark_failed that records the error but leaves the status.
mark_failed_KeepsStatus(iv, error) ==
    [iv EXCEPT !.error = Some(error), !.completed_at = Some(0)]

mark_failed(iv, error) ==
    [iv EXCEPT !.status = FAILED, !.error = Some(error), !.completed_at = Some(0)]

\* ---------------------------------------------------------- the repository
\* Index of the first document a filter {"id": id} matches, 0 when none.
RECURSIVE FirstWithId(_, _, _)
FirstWithId(docs, id, k) ==
    IF k > Len(docs) THEN 0
    ELSE IF docs[k].id = id THEN k
    ELSE FirstWithId(docs, id, k + 1)

\* The unique index on message_id.
HasMessageId(docs, message_id) ==
    \E k \in 1..Len(docs) : docs[k].message_id = message_id

\* InterviewRepository.create: insert_one(interview.dict()).
CanCreate(docs, iv) == ~HasMessageId(docs, iv.message_id)
create(docs, iv) == Append(docs, iv)

\* InterviewRepository.update: update_one({"id": id}, {"$set": interview.dict()})
\* replaces every field of the first document with that id.
Matched(docs, iv) == FirstWithId(docs, iv.id, 1) # 0
update(docs, iv) ==
    [docs EXCEPT ![FirstWithId(docs, iv.id, 1)] = iv]

\* InterviewRepository.get_by_id
get_by_id(docs, id) ==
    IF FirstWithId(docs, id, 1) = 0 THEN None
    ELSE Some(docs[FirstWithId(docs, id, 1)])

\* MongoDB {"field": {"$lt": datetime.now() - timedelta(minutes=m)}}: the
\* field is older than m minutes; a null field never matches.
MongoLt(field, minutes) == IsSome(field) /\ Get(field) > minutes

\* ------------------------------------------------------------ transcripts
\* A text is the sequence of its lines ("\n".join(lines)); the empty string
\* is the empty sequence.  A rendered segment line
\* "[MM:SS-MM:SS] text" is <<start_min, start_sec, end_min, end_sec, text>>
\* with each number as the sequence of its decimal digits as printed; an
\* empty line is << >>.
BlankLine == << >>

\* str(n): the decimal digits of n.
RECURSIVE Digits(_)
Digits(n) == IF n < 10 THEN << n >> ELSE Append(Digits(n \div 10), n % 10)

\* f"{n:02d}": the digits of n, with a leading zero below 10.
Format02d(n) == IF n < 10 THEN << 0, n >> ELSE Digits(n)

\* int(match.group(i)): the number a string of digits reads as.
RECURSIVE ParseInt(_)
ParseInt(digits) ==
    IF digits = << >> THEN 0
    ELSE ParseInt(SubSeq(digits, 1, Len(digits) - 1)) * 10 + digits[Len(digits)]

\* _transcribe_simple, one segment: minutes and seconds of its start and
\* end, each printed with two digits at least, then its text.
RenderSegment(segment) ==
    << Format02d(segment.start \div SecondsPerMinute),
       Format02d(segment.start % SecondsPerMinute),
       Format02d(segment.end \div SecondsPerMinute),
       Format02d(segment.end % SecondsPerMinute),
       segment.text >>

\* _transcribe_simple(chunk_bytes) for what WhisperService.transcribe does:
\* it raises, or returns no text (result = None), or returns text with its
\* segments (result = Some(segments)).  The return value is None or the
\* rendered lines.
_transcribe_simple(result) ==
    IF ~IsSome(result) THEN None
    ELSE Some([k \in 1..Len(Get(result)) |-> RenderSegment(Get(result)[k])])

\* "not chunk_transcript": None or the empty string.
NotText(chunk_transcript) ==
    ~IsSome(chunk_transcript) \/ Get(chunk_transcript) = << >>

\* The timestamp pattern \[(\d{1,2}):(\d{2})(?:-(\d{1,2}):(\d{2}))?\] matches
\* a rendered line whose minutes have one or two digits and whose seconds
\* have two.
PatternMatches(line) ==
    /\ line # BlankLine
    /\ Len(line[1]) \in 1..2 /\ Len(line[2]) = 2
    /\ Len(line[3]) \in 1..2 /\ Len(line[4]) = 2

\* milliseconds in a minute: "* 60 * 1000" and "/ 1000 / 60".
MsPerMinute == 60000

\* A shift by one minute, whatever the offset.
_adjust_timestamps_ByOne(transcript, offset_minutes) ==
    [k \in 1..Len(transcript) |->
        IF PatternMatches(transcript[k])
        THEN << Format02d(ParseInt(transcript[k][1]) + 1), transcript[k][2],
                Format02d(ParseInt(transcript[k][3]) + 1), transcript[k][4],
                transcript[k][5] >>
        ELSE transcript[k]]

\* A shift that prints the minutes without a leading zero.
_adjust_timestamps_Unpadded(transcript, offset_minutes) ==
    [k \in 1..Len(transcript) |->
        IF PatternMatches(transcript[k])
        THEN << Digits(ParseInt(transcript[k][1]) + offset_minutes \div MsPerMinute),
                Format02d(ParseInt(transcript[k][2])),
                Digits(ParseInt(transcript[k][3]) + offset_minutes \div MsPerMinute),
                Format02d(ParseInt(transcript[k][4])),
                transcript[k][5] >>
        ELSE transcript[k]]

\* _adjust_timestamps: every timestamp the pattern matches is printed anew,
\* int(offset_minutes) added to its minutes.  offset_minutes, the float
\* start_time_ms / 1000 / 60, is kept as its milliseconds.
_adjust_timestamps(transcript, offset_minutes) ==
    [k \in 1..Len(transcript) |->
        IF PatternMatches(transcript[k])
        THEN << Format02d(ParseInt(transcript[k][1]) + offset_minutes \div MsPerMinute),
                Format02d(ParseInt(transcript[k][2])),
                Format02d(ParseInt(transcript[k][3]) + offset_minutes \div MsPerMinute),
                Format02d(ParseInt(transcript[k][4])),
                transcript[k][5] >>
        ELSE transcript[k]]

\* A loop that leaves the timestamps of every chunk as the engine gave them.
Adjusted_Never(chunk_transcript, start_time_minutes) == chunk_transcript

\* transcribe_chunks, "Adjust timestamps if not first chunk".
\* start_time_minutes, the float start_time_ms / 1000 / 60, is kept as its
\* milliseconds.
Adjusted(chunk_transcript, start_time_minutes) ==
    IF start_time_minutes > 0
    THEN _adjust_timestamps(chunk_transcript, start_time_minutes)
    ELSE chunk_transcript

\* transcribe_chunks, "Combine transcripts": full_transcript += "\n\n" + chunk.
Combined(full_transcript, chunk_transcript) ==
    IF full_transcript # << >>
    THEN full_transcript \o << BlankLine >> \o chunk_transcript
    ELSE chunk_transcript

\* A loop that gives up the whole transcript once a chunk has failed.
AfterChunk_AllOrNothing(full_transcript, chunk_transcript, start_time_minutes) ==
    IF NotText(chunk_transcript) THEN << >>
    ELSE Combined(full_transcript, Adjusted(Get(chunk_transcript), start_time_minutes))

\* transcribe_chunks, one iteration after the engine call: a chunk without
\* text is skipped ("continue"), any other is adjusted and merged.
AfterChunk(full_transcript, chunk_transcript, start_time_minutes) ==
    IF NotText(chunk_transcript) THEN full_transcript
    ELSE Combined(full_transcript, Adjusted(Get(chunk_transcript), start_time_minutes))

\* return full_transcript if full_transcript else None
transcribe_chunks_result(full_transcript) ==
    IF full_transcript # << >> THEN Some(full_transcript) ELSE None

\* split_into_chunks, the while loop from start_time_ms on: a chunk is
\* <<start_time_ms, duration_ms>>, the start and the length of the slice
\* audio[start_time_ms:end_time_ms].
RECURSIVE SplitFrom(_, _, _)
SplitFrom(start_time_ms, total_duration_ms, chunk_duration_ms) ==
    IF start_time_ms < total_duration_ms
    THEN LET end_time_ms ==
                 IF start_time_ms + chunk_duration_ms < total_duration_ms
                 THEN start_time_ms + chunk_duration_ms
                 ELSE total_duration_ms
         IN << << start_time_ms, end_time_ms - start_time_ms >> >>
            \o SplitFrom(end_time_ms, total_duration_ms, chunk_duration_ms)
    ELSE << >>

\* A split that drops a last chunk shorter than the chunk duration.
split_into_chunks_DropsTail(total_duration_ms, chunk_duration_minutes) ==
    SplitFrom(0,
              total_duration_ms
                  - (total_duration_ms % (chunk_duration_minutes * MsPerMinute)),
              chunk_duration_minutes * MsPerMinute)

\* split_into_chunks for an audio of total_duration_ms = len(audio) and an
\* AudioProcessor of chunk_duration_minutes.
split_into_chunks(total_duration_ms, chunk_duration_minutes) ==
    SplitFrom(0, total_duration_ms, chunk_duration_minutes * MsPerMinute)

\* The chunks of an audio of n whole chunk durations.
Chunks(n) ==
    split_into_chunks(n * AUDIO_CHUNK_MINUTES * MsPerMinute, AUDIO_CHUNK_MINUTES)

\* ------------------------------------------------------------------ Init
IdleTask ==
    [ pc |-> "idle", origin |-> "none", message_id |-> "none",
      media |-> "none", interview |-> None,
      chunks |-> << >>, i |-> 0, calls |-> 0, results |-> << >>,
      full_transcript |-> << >>,
      prompt |-> None, yt |-> "none" ]

\* recovered: the ids of the jobs the cycle has reclassified so far.
IdleCycle ==
    [ pc |-> "idle", orphaned |-> << >>, retry |-> << >>, recovered |-> {} ]

\* Per message: failure messages, permanent-failure messages, transcript
\* documents delivered and completion messages sent to its owner.
NoNotices == [ failed |-> 0, permanent |-> 0, transcripts |-> 0, completions |-> 0 ]

\* No ProgressTracker in use, and no user with a session.
IdleTracker == << >>
NoSessions == << >>

\* ---------------------------------------------------------- user sessions
\* SessionState, as the enum of user_session.py defines it.
IDLE == "idle"
WAITING_CUSTOM_INSTRUCTIONS == "waiting_custom_instructions"
WAITING_AUDIO == "waiting_audio"
SessionState == { IDLE, WAITING_CUSTOM_INSTRUCTIONS, WAITING_AUDIO }

\* Names the session manager and the YouTube task use as SessionState.X.
\* Reading a name the enum does not define raises AttributeError.
BUSY == "busy"
WAITING_YOUTUBE_CONFIRMATION == "waiting_youtube_confirmation"
Defined(state) == state \in SessionState

\* Every message comes from the one user followed.
Users == { "u1" }
From(message_id) == "u1"

\* UserSession(user_id): state IDLE, empty context.  The context is a dict:
\* a function from keys to values.
EmptyContext == << >>
NewSession == [ state |-> IDLE, context |-> EmptyContext ]

\* UserSessionRepository.get_session: the stored session, None when there is
\* none (an expired one is deleted and counts as none).
HasSession(store, user_id) == user_id \in DOMAIN store
get_session(store, user_id) ==
    IF HasSession(store, user_id) THEN Some(store[user_id]) ELSE None

\* save_session: replace_one(..., upsert = True)
save_session(store, user_id, session) ==
    (user_id :> session) @@ store

\* get_or_create_session: a missing session is created and saved.
Created(store, user_id) ==
    IF HasSession(store, user_id) THEN store
    ELSE save_session(store, user_id, NewSession)

\* session.get_context_value(key): None for a missing key.
get_context_value(session, key) ==
    IF key \in DOMAIN session.context THEN Some(session.context[key]) ELSE None

\* UserSession.set_state(state, context): "if context:
\* self.context.update(context)"
set_state(session, state, context) ==
    [ state |-> state, context |-> context @@ session.context ]

\* UserSession.clear_state
clear_state(session) == [ state |-> IDLE, context |-> EmptyContext ]

\* clear_session: the stored session, if any, is cleared and saved.
clear_session(store, user_id) ==
    IF HasSession(store, user_id)
    THEN save_session(store, user_id, clear_state(store[user_id]))
    ELSE store

\* is_waiting_for_audio, is_waiting_for_custom_instructions:
\* "session and session.state == SessionState.X"
IsWaiting(store, user_id, state) ==
    /\ HasSession(store, user_id)
    /\ store[user_id].state = state

\* is_waiting_for_youtube_confirmation: with no session "session and ..." is
\* falsy; with one, SessionState.WAITING_YOUTUBE_CONFIRMATION is read, and
\* the AttributeError of an undefined name is caught and gives False.
is_waiting_for_youtube_confirmation(store, user_id) ==
    /\ HasSession(store, user_id)
    /\ Defined(WAITING_YOUTUBE_CONFIRMATION)
    /\ store[user_id].state = WAITING_YOUTUBE_CONFIRMATION

\* set_user_busy, set_waiting_for_youtube_confirmation:
\* get_or_create_session, then session.set_state(SessionState.X, context)
\* and save_session inside "try"; an undefined X raises before anything is
\* set or saved, "except Exception" returns False.
SetWaiting(store, user_id, state, context) ==
    IF Defined(state)
    THEN save_session(store, user_id,
                      set_state(Created(store, user_id)[user_id], state, context))
    ELSE Created(store, user_id)

\* set_waiting_for_custom_instructions(user_id, prompt_id)
set_waiting_for_custom_instructions(store, user_id, prompt_id) ==
    SetWaiting(store, user_id, WAITING_CUSTOM_INSTRUCTIONS,
               [ custom_prompt_id |-> prompt_id, step |-> "instructions" ])

\* process_custom_instructions(user_id, instructions): in another state than
\* WAITING_CUSTOM_INSTRUCTIONS nothing is set (a missing session has been
\* created by get_or_create_session).
process_custom_instructions(store, user_id, instructions) ==
    LET session == Created(store, user_id)[user_id] IN
    IF session.state # WAITING_CUSTOM_INSTRUCTIONS
    THEN Created(store, user_id)
    ELSE save_session(store, user_id,
            set_state(session, WAITING_AUDIO,
                [ custom_prompt_id |-> Get(get_context_value(session, "custom_prompt_id")),
                  custom_instructions |-> instructions,
                  step |-> "audio" ]))

Init ==
    /\ processed_messages = {}
    /\ interviews = << >>
    /\ tasks = [e \in Execs |-> IdleTask]
    /\ cycles = [c \in Cycles |-> IdleCycle]
    /\ forced = << >>
    /\ notified = [m \in Messages |-> NoNotices]
    /\ reentries = [m \in Messages |-> 0]
    /\ tracker = IdleTracker
    /\ sessions = NoSessions

\* ----------------------------------------------------------------- clock
\* Ages saturate one step past the threshold they are compared with;
\* completed_at is never compared.
TickMinutes == retry_delay_minutes
StartedCap == max_processing_time_minutes + TickMinutes
RetryCap == retry_delay_minutes + TickMinutes

Min(a, b) == IF a < b THEN a ELSE b
Older(field, cap) ==
    IF IsSome(field) THEN Some(Min(Get(field) + TickMinutes, cap)) ELSE None

Aged(iv) ==
    [iv EXCEPT !.started_at = Older(iv.started_at, StartedCap),
               !.last_retry_at = Older(iv.last_retry_at, RetryCap)]

AgedAll(ivs) == [k \in 1..Len(ivs) |-> Aged(ivs[k])]

\* Time passes: every datetime held anywhere is TickMinutes older.
Tick ==
    /\ interviews' = AgedAll(interviews)
    /\ tasks' = [e \in Execs |->
                   [tasks[e] EXCEPT !.interview = AgedAll(tasks[e].interview)]]
    /\ cycles' = [c \in Cycles |->
                   [cycles[c] EXCEPT !.orphaned = AgedAll(cycles[c].orphaned),
                                     !.retry = AgedAll(cycles[c].retry)]]
    /\ forced' = AgedAll(forced)
    /\ UNCHANGED << tracker, sessions, processed_messages, notified, reentries >>

\* ------------------------------------------------------ pipeline execution
FreeSlots == {e \in Execs : tasks[e].pc = "idle"}
FreeSlot == CHOOSE e \in FreeSlots : \A f \in FreeSlots : e <= f

\* background_tasks.add_task(handler.process_audio_message, message_data)
Schedule(ts, origin, message_id, media) ==
    [ts EXCEPT ![FreeSlot] =
        [IdleTask EXCEPT !.pc = "start", !.origin = origin,
                         !.message_id = message_id, !.media = media]]

\* processed_messages.add(message_id); if len(processed_messages) >
\* settings.MAX_CACHE_SIZE: processed_messages.clear()
Cached(cache, message_id) ==
    IF Cardinality(cache \cup {message_id}) > MAX_CACHE_SIZE
    THEN {}
    ELSE cache \cup {message_id}

\* _handle_webhook: duplicate check on the message id, the id is added to
\* the cache (emptied when over its size), then the audio message is handed
\* to a background task.  media is the message's media_id: the whole message
\* object ("payload", Telegram) or a plain id string ("string", WhatsApp).
Webhook(m, media) ==
    /\ m \notin processed_messages
    /\ FreeSlots # {}
    /\ processed_messages' = Cached(processed_messages, m)
    /\ tasks' = Schedule(tasks, "webhook", m, media)
    /\ UNCHANGED << tracker, sessions, interviews, cycles, forced, notified, reentries >>

\* _get_file_id_from_message raises on a media_id that is a str (it has no
\* .get and cannot be indexed by a key).
FileIdRaises(media) == media = "string"

\* process_audio_message up to interview_repo.create.  An exception before
\* the Interview exists leaves interview = None and the handler returns; a
\* failed create reaches the handler, whose update of the new id matches no
\* document and raises out of the task.  id is the millisecond at which the
\* Interview is constructed.
ExecStart(e, id) ==
    LET t == tasks[e]
        iv == [Interview(id, t.message_id) EXCEPT !.custom_instructions = t.prompt]
    IN
    /\ \/ /\ t.pc = "start"
          /\ \/ FileIdRaises(t.media)
             \/ ~IsWaiting(sessions, From(t.message_id), WAITING_AUDIO)
       \/ t.pc = "prompted"
    /\ IF FileIdRaises(t.media)
       THEN /\ tasks' = [tasks EXCEPT ![e] = IdleTask]
            /\ UNCHANGED interviews
       ELSE IF ~CanCreate(interviews, iv)
       THEN /\ tasks' = [tasks EXCEPT ![e] = IdleTask]
            /\ UNCHANGED interviews
       ELSE /\ interviews' = create(interviews, iv)
            /\ tasks' = [tasks EXCEPT ![e].pc = "created",
                                      ![e].interview = Some(iv)]
    /\ UNCHANGED << tracker, sessions, processed_messages, cycles, forced, notified, reentries >>

\* process_audio_message, "if await
\* self.session_manager.is_waiting_for_audio(...)": the user's session is
\* WAITING_AUDIO.
ExecCheckSession(e) ==
    LET t == tasks[e] IN
    /\ t.pc = "start"
    /\ ~FileIdRaises(t.media)
    /\ IsWaiting(sessions, From(t.message_id), WAITING_AUDIO)
    /\ tasks' = [tasks EXCEPT ![e].pc = "session"]
    /\ UNCHANGED << tracker, sessions, processed_messages, interviews, cycles,
                    forced, notified, reentries >>

\* "session = await ...get_session(...)": when there is a session whose
\* context holds a prompt id and instructions they are set on the
\* Interview, and the session is to be cleared.
ExecTakeInstructions(e) ==
    LET t == tasks[e]
        session == get_session(sessions, From(t.message_id))
        custom_prompt_id ==
            IF IsSome(session) THEN get_context_value(Get(session), "custom_prompt_id")
            ELSE None
        custom_instructions ==
            IF IsSome(session) THEN get_context_value(Get(session), "custom_instructions")
            ELSE None
    IN
    /\ t.pc = "session"
    /\ tasks' = IF IsSome(custom_prompt_id) /\ IsSome(custom_instructions)
                THEN [tasks EXCEPT ![e].pc = "clearing",
                                   ![e].prompt = custom_instructions]
                ELSE [tasks EXCEPT ![e].pc = "prompted"]
    /\ UNCHANGED << tracker, sessions, processed_messages, interviews, cycles,
                    forced, notified, reentries >>

\* "await self.session_manager.clear_session(...)"
ExecClearSession(e) ==
    /\ tasks[e].pc = "clearing"
    /\ sessions' = clear_session(sessions, From(tasks[e].message_id))
    /\ tasks' = [tasks EXCEPT ![e].pc = "prompted"]
    /\ UNCHANGED << tracker, processed_messages, interviews, cycles,
                    forced, notified, reentries >>

\* An update that moves the task on without writing the store.
Stored_NoWrite(e, iv, pc) ==
    /\ UNCHANGED interviews
    /\ tasks' = IF pc = "idle" THEN [tasks EXCEPT ![e] = IdleTask]
                ELSE [tasks EXCEPT ![e].pc = pc, ![e].interview = Some(iv)]

\* await self.interview_repo.update(interview) inside the pipeline: the
\* task's Interview object is written over the stored document and the task
\* moves on.  An update that matches no document raises; the handler's own
\* update then raises too and the task ends.
Stored(e, iv, pc) ==
    IF Matched(interviews, iv)
    THEN /\ interviews' = update(interviews, iv)
         /\ tasks' = IF pc = "idle" THEN [tasks EXCEPT ![e] = IdleTask]
                     ELSE [tasks EXCEPT ![e].pc = pc, ![e].interview = Some(iv)]
    ELSE /\ UNCHANGED interviews
         /\ tasks' = [tasks EXCEPT ![e] = IdleTask]

\* interview.mark_processing(); update
ExecMarkProcessing(e) ==
    /\ tasks[e].pc = "created"
    /\ Stored(e, mark_processing(Get(tasks[e].interview)), "processing")
    /\ UNCHANGED << tracker, sessions, processed_messages, cycles, forced, notified, reentries >>

\* Failure messages to the owner of message m.
Notify(m, n) == [notified EXCEPT ![m].failed = notified[m].failed + n]

\* The handler of process_audio_message: interview.mark_failed(str(e)),
\* update, then the error message to the owner.  before is the number of
\* failure messages the failing stage has sent itself.  The task ends.
Failed(e, before) ==
    LET iv == mark_failed(Get(tasks[e].interview), ErrPipeline) IN
    /\ tasks' = [tasks EXCEPT ![e] = IdleTask]
    /\ IF Matched(interviews, iv)
       THEN /\ interviews' = update(interviews, iv)
            /\ notified' = Notify(iv.message_id, before + 1)
       ELSE /\ UNCHANGED interviews
            /\ notified' = Notify(iv.message_id, before)

\* A ceiling of one megabyte more.
ConvertRaises_LooserCeiling(mp3_size) ==
    mp3_size > (max_converted_size_mb + 1) * BytesPerMb

\* convert_to_mp3: "converted_size_mb = len(mp3_bytes) / (1024 * 1024)";
\* "if converted_size_mb > self.max_converted_size_mb: raise
\* AudioProcessingError(error_msg)"
ConvertRaises(mp3_size) ==
    mp3_size > max_converted_size_mb * BytesPerMb

\* _process_audio: download, convert to an mp3 of mp3_size bytes, split the
\* audio of total_duration_ms; interview.chunks_total = len(chunks); update.
\* An exception of convert_to_mp3 reaches the handler.
ExecSplit(e, mp3_size, total_duration_ms, chunk_duration_minutes) ==
    LET chunks == split_into_chunks(total_duration_ms, chunk_duration_minutes)
        iv == [Get(tasks[e].interview) EXCEPT !.chunks_total = Len(chunks)]
    IN
    /\ tasks[e].pc = "processing"
    /\ IF ConvertRaises(mp3_size)
       THEN Failed(e, 0)
       ELSE /\ IF Matched(interviews, iv)
               THEN /\ interviews' = update(interviews, iv)
                    /\ tasks' = [tasks EXCEPT
                          ![e].pc = "split",
                          ![e].chunks = chunks,
                          ![e].interview = Some(iv)]
               ELSE /\ UNCHANGED interviews
                    /\ tasks' = [tasks EXCEPT ![e] = IdleTask]
            /\ UNCHANGED notified
    /\ UNCHANGED << tracker, sessions, processed_messages, cycles, forced, reentries >>

\* interview.status = TRANSCRIBING; update
ExecMarkTranscribing(e) ==
    /\ tasks[e].pc = "split"
    /\ Stored(e, [Get(tasks[e].interview) EXCEPT !.status = TRANSCRIBING],
              "transcribing")
    /\ UNCHANGED << tracker, sessions, processed_messages, cycles, forced, notified, reentries >>

\* A loop that goes to the engine without calling the progress callback.
ExecProgress_Skipped(e) ==
    /\ tasks[e].pc = "transcribing"
    /\ tasks[e].i < Len(tasks[e].chunks)
    /\ tasks' = [tasks EXCEPT ![e].pc = "chunk"]
    /\ UNCHANGED << tracker, sessions, processed_messages, interviews, cycles, forced, notified, reentries >>

\* A callback that stores one more than the chunk's index.
ProgressValue_OneMore(chunk_index) == chunk_index + 1

\* _update_progress_enhanced: interview.chunks_processed = chunk_num
ProgressValue(chunk_index) == chunk_index

\* transcribe_chunks, loop body up to the engine call: chunk_index = i + 1
\* and the progress callback (_update_progress_enhanced) stores
\* chunks_processed.  An update that matches nothing raises out of
\* transcribe_chunks and the task ends as in Stored.
ExecProgress(e) ==
    LET t == tasks[e]
        iv == [Get(t.interview) EXCEPT !.chunks_processed = ProgressValue(t.i + 1)]
    IN
    /\ t.pc = "transcribing"
    /\ t.i < Len(t.chunks)
    /\ IF Matched(interviews, iv)
       THEN /\ interviews' = update(interviews, iv)
            /\ tasks' = [tasks EXCEPT ![e].pc = "chunk",
                                      ![e].interview = Some(iv),
                                      ![e].calls = t.calls + 1]
       ELSE /\ UNCHANGED interviews
            /\ tasks' = [tasks EXCEPT ![e] = IdleTask]
    /\ UNCHANGED << tracker, sessions, processed_messages, cycles, forced, notified, reentries >>

\* A loop that calls the engine again for a chunk whose call failed.
ExecTranscribeChunk_RepeatsFailed(e, result) ==
    LET t == tasks[e]
        chunk_transcript == _transcribe_simple(result)
    IN
    /\ t.pc = "chunk"
    /\ tasks' = [tasks EXCEPT
          ![e].pc = "transcribing",
          ![e].i = IF IsSome(chunk_transcript) THEN t.i + 1 ELSE t.i,
          ![e].results = Append(t.results, chunk_transcript),
          ![e].full_transcript =
              AfterChunk(t.full_transcript, chunk_transcript, t.chunks[t.i + 1][1])]
    /\ UNCHANGED << tracker, sessions, processed_messages, interviews, cycles, forced, notified, reentries >>

\* transcribe_chunks, rest of the loop body: the engine is called for the
\* chunk and answers result; the chunk's transcript is skipped or merged.
\* Nothing is sent to the owner and nothing is stored.
ExecTranscribeChunk(e, result) ==
    LET t == tasks[e]
        chunk_transcript == _transcribe_simple(result)
    IN
    /\ t.pc = "chunk"
    /\ tasks' = [tasks EXCEPT
          ![e].pc = "transcribing",
          ![e].i = t.i + 1,
          ![e].results = Append(t.results, chunk_transcript),
          ![e].full_transcript =
              AfterChunk(t.full_transcript, chunk_transcript, t.chunks[t.i + 1][1])]
    /\ UNCHANGED << tracker, sessions, processed_messages, interviews, cycles, forced, notified, reentries >>

\* A check that lets an empty transcript through.
TranscriptOk_Always(transcript) == TRUE

\* "if not transcript: raise Exception("Transcription failed")"
TranscriptOk(transcript) == IsSome(transcript) /\ Get(transcript) # << >>

\* After the loop transcribe_chunks returns; an empty transcript raises,
\* otherwise interview.transcript = transcript; status = ANALYZING; update.
ExecAfterTranscribe(e) ==
    LET t == tasks[e]
        transcript == transcribe_chunks_result(t.full_transcript)
    IN
    /\ t.pc = "transcribing"
    /\ t.i >= Len(t.chunks)
    /\ IF TranscriptOk(transcript)
       THEN /\ Stored(e, [Get(t.interview) EXCEPT !.transcript = transcript,
                                                   !.status = ANALYZING],
                      "analyzing")
            /\ UNCHANGED notified
       ELSE Failed(e, 0)
    /\ UNCHANGED << tracker, sessions, processed_messages, cycles, forced, reentries >>

\* analysis.generate_report: it returns a report, returns nothing (an empty
\* answer of the engine), or raises AnalysisError (any error inside, a
\* transcript shorter than 100 characters included).  Under heartbeat
\* (time_estimates['analysis_minutes'] > 2) run_with_heartbeat sends its own
\* failure message before re-raising.  A raise reaches the handler.
ExecAnalysis(e, outcome, heartbeat) ==
    LET t == tasks[e] IN
    /\ t.pc = "analyzing"
    /\ IF outcome = "raises"
       THEN Failed(e, IF heartbeat THEN 1 ELSE 0)
       ELSE /\ tasks' = [tasks EXCEPT
                  ![e].pc = "documents",
                  ![e].interview = Some([Get(t.interview) EXCEPT
                      !.analysis = IF outcome = "report" THEN Some("report") ELSE None])]
            /\ UNCHANGED << interviews, notified >>
    /\ UNCHANGED << tracker, sessions, processed_messages, cycles, forced, reentries >>

\* How the delivery of the transcript document goes: upload_media gives a
\* media id and send_document sends it, upload_media returns None (the
\* send is skipped), or send_document returns False.  None of them raises.
Deliveries == {"sent", "upload_fails", "send_fails"}

\* _create_and_send_documents returns (the documents are created, and the
\* transcript document goes out or not); interview.mark_completed();
\* update; the completion message is sent.
ExecComplete(e, delivery) ==
    LET iv == mark_completed(Get(tasks[e].interview))
        m == iv.message_id
        got == IF delivery = "sent" THEN 1 ELSE 0
    IN
    /\ tasks[e].pc = "documents"
    /\ tasks' = [tasks EXCEPT ![e] = IdleTask]
    /\ IF Matched(interviews, iv)
       THEN /\ interviews' = update(interviews, iv)
            /\ notified' = [notified EXCEPT
                  ![m].transcripts = Min(notified[m].transcripts + got, MaxNotices),
                  ![m].completions = Min(notified[m].completions + 1, MaxNotices)]
       ELSE /\ UNCHANGED interviews
            /\ notified' = [notified EXCEPT
                  ![m].transcripts = Min(notified[m].transcripts + got, MaxNotices)]
    /\ UNCHANGED << tracker, sessions, processed_messages, cycles, forced, reentries >>

\* A stage raises (download, conversion, splitting, document generation or
\* delivery) and the exception reaches the handler.
ExecStageFails(e) ==
    /\ tasks[e].pc \in {"processing", "documents"}
    /\ Failed(e, 0)
    /\ UNCHANGED << tracker, sessions, processed_messages, cycles, forced, reentries >>

\* ------------------------------------------------------- recovery service
\* A scan filter that forgets the status.
IsOrphaned_AnyStatus(doc, minutes) == MongoLt(doc.started_at, minutes)

\* _find_orphaned_interviews: the documents in a processing status whose
\* started_at is before the cutoff, as Interview objects.
IsOrphaned(doc, minutes) ==
    /\ doc.status \in {PROCESSING, TRANSCRIBING, ANALYZING}
    /\ MongoLt(doc.started_at, minutes)

_find_orphaned_interviews(docs) ==
    LET selected(doc) == IsOrphaned(doc, max_processing_time_minutes)
    IN SelectSeq(docs, selected)

\* _find_retry_candidates: failed documents under the retry cap whose
\* last_retry_at is before the cutoff.
IsRetryCandidate(doc, minutes) ==
    /\ doc.status = FAILED
    /\ doc.retry_count < max_retry_attempts
    /\ MongoLt(doc.last_retry_at, minutes)

_find_retry_candidates(docs) ==
    LET selected(doc) == IsRetryCandidate(doc, retry_delay_minutes)
    IN SelectSeq(docs, selected)

\* A recovery that forgets to count the attempt.
Recovered_NoIncrement(iv) ==
    [iv EXCEPT !.last_retry_at = Some(0),
               !.status = FAILED,
               !.error = Some(ErrOrphan)]

\* _recover_interview: the fields written on the orphan's Interview object.
Recovered(iv) ==
    [iv EXCEPT !.retry_count = iv.retry_count + 1,
               !.last_retry_at = Some(0),
               !.status = FAILED,
               !.error = Some(ErrOrphan)]

\* A cap test that lets one retry too many through.
RetryCapReached_OffByOne(iv) == iv.retry_count > max_retry_attempts

\* _retry_interview: the cap test, and the reset for reprocessing.
RetryCapReached(iv) == iv.retry_count >= max_retry_attempts

ResetForRetry(iv) ==
    [iv EXCEPT !.status = PENDING,
               !.error = None,
               !.retry_count = iv.retry_count + 1,
               !.last_retry_at = Some(0)]

\* _mark_permanently_failed: after the update, the "failed for good"
\* message to the owner.  The count stops at MaxNotices.
NotifyPermanent(m) ==
    [notified EXCEPT ![m].permanent = Min(notified[m].permanent + 1, MaxNotices)]

\* _mark_permanently_failed: the fields written.
PermanentlyFailed(iv) ==
    [iv EXCEPT !.status = FAILED,
               !.error = Some(ErrPermanent),
               !.completed_at = Some(0)]

\* _retry_interview(interview) on the caller's Interview object.  The
\* reprocessing task gets message_data whose media_id is interview.audio_id,
\* a str.  A failed update is caught and logged: nothing is scheduled.
_retry_interview(iv) ==
    IF RetryCapReached(iv)
    THEN /\ interviews' = IF Matched(interviews, iv)
                          THEN update(interviews, PermanentlyFailed(iv))
                          ELSE interviews
         /\ notified' = IF Matched(interviews, iv)
                        THEN NotifyPermanent(iv.message_id)
                        ELSE notified
         /\ UNCHANGED tasks
    ELSE IF Matched(interviews, iv)
    THEN /\ interviews' = update(interviews, ResetForRetry(iv))
         /\ tasks' = Schedule(tasks, "retry", iv.message_id, "string")
         /\ UNCHANGED notified
    ELSE UNCHANGED << interviews, tasks, notified >>

\* _retry_interview reaches asyncio.create_task: the pipeline is re-entered.
ReEnters(iv) == ~RetryCapReached(iv) /\ Matched(interviews, iv)

\* Re-entries are counted up to one past the retry cap.
ReentryCap == max_retry_attempts + 1

\* asyncio.create_task needs a task slot in the model.
CanRetry(iv) == RetryCapReached(iv) \/ FreeSlots # {}

\* run_recovery_cycle, first await: the orphan scan.
CycleFindOrphaned(c) ==
    /\ cycles[c].pc = "idle"
    /\ cycles' = [cycles EXCEPT ![c].pc = "recover",
                                ![c].orphaned = _find_orphaned_interviews(interviews)]
    /\ UNCHANGED << tracker, sessions, processed_messages, interviews, tasks, forced, notified, reentries >>

\* for interview in orphaned_interviews: await self._recover_interview(interview)
CycleRecover(c) ==
    LET iv == Head(cycles[c].orphaned) IN
    /\ cycles[c].pc = "recover"
    /\ cycles[c].orphaned # << >>
    /\ interviews' = IF Matched(interviews, iv)
                     THEN update(interviews, Recovered(iv))
                     ELSE interviews
    /\ cycles' = [cycles EXCEPT
          ![c].orphaned = Tail(cycles[c].orphaned),
          ![c].recovered = IF Matched(interviews, iv)
                           THEN cycles[c].recovered \cup {iv.id}
                           ELSE cycles[c].recovered]
    /\ UNCHANGED << tracker, sessions, processed_messages, tasks, forced, notified, reentries >>

\* retry_interviews = await self._find_retry_candidates(); an empty result
\* ends the cycle.
CycleFindRetry(c) ==
    LET found == _find_retry_candidates(interviews) IN
    /\ cycles[c].pc = "recover"
    /\ cycles[c].orphaned = << >>
    /\ cycles' = [cycles EXCEPT ![c] =
                    IF found = << >> THEN IdleCycle
                    ELSE [cycles[c] EXCEPT !.pc = "retry", !.retry = found]]
    /\ UNCHANGED << tracker, sessions, processed_messages, interviews, tasks, forced, notified, reentries >>

\* for interview in retry_interviews: await self._retry_interview(interview)
CycleRetry(c) ==
    LET iv == Head(cycles[c].retry)
        rest == Tail(cycles[c].retry)
    IN
    /\ cycles[c].pc = "retry"
    /\ CanRetry(iv)
    /\ _retry_interview(iv)
    /\ cycles' = [cycles EXCEPT ![c] =
                    IF rest = << >> THEN IdleCycle
                    ELSE [cycles[c] EXCEPT !.retry = rest]]
    /\ reentries' = IF ReEnters(iv)
                    THEN [reentries EXCEPT ![iv.message_id] =
                            Min(reentries[iv.message_id] + 1, ReentryCap)]
                    ELSE reentries
    /\ UNCHANGED << tracker, sessions, processed_messages, forced >>

\* force_retry_interview: get_by_id, then the retry is handed to a
\* background task with the Interview object just read.
ForceRetry(id) ==
    LET found == get_by_id(interviews, id) IN
    /\ IsSome(found)
    /\ Len(forced) < MaxForced
    /\ forced' = Append(forced, Get(found))
    /\ UNCHANGED << tracker, sessions, processed_messages, interviews, tasks, cycles, notified, reentries >>

\* The background task of a forced retry runs.
ForcedRun(k) ==
    LET iv == forced[k] IN
    /\ CanRetry(iv)
    /\ _retry_interview(iv)
    /\ forced' = SubSeq(forced, 1, k - 1) \o SubSeq(forced, k + 1, Len(forced))
    /\ UNCHANGED << tracker, sessions, processed_messages, cycles, reentries >>

\* What the transcription engine answers for a chunk: nothing (an error or
\* no text), or the segments of the chunk.
Segment(start, end, text) == [ start |-> start, end |-> end, text |-> text ]
EngineResults == { None, Some(<< Segment(65, 70, "a") >>) }

AnalysisOutcomes == { "report", "nothing", "raises" }

\* len(mp3_bytes) after the conversion: a byte under the ceiling, the
\* ceiling, a byte over it.
ConvertedSizes ==
    { max_converted_size_mb * BytesPerMb + d : d \in {-1, 0, 1} }

\* len(audio) of the audios received: no audio at all, or up to MaxChunks
\* whole chunk durations.
Durations == {n * AUDIO_CHUNK_MINUTES * MsPerMinute : n \in 0..MaxChunks}

StoredIds == {interviews[k].id : k \in 1..Len(interviews)}

Next ==
    \/ Tick
    \/ \E m \in Messages, media \in {"payload", "string"} : Webhook(m, media)
    \/ \E e \in Execs : ExecStart(e, NewId)
    \/ \E e \in Execs : ExecMarkProcessing(e)
    \/ \E e \in Execs, mp3_size \in ConvertedSizes, total_duration_ms \in Durations :
          ExecSplit(e, mp3_size, total_duration_ms, AUDIO_CHUNK_MINUTES)
    \/ \E e \in Execs : ExecMarkTranscribing(e)
    \/ \E e \in Execs : ExecProgress(e)
    \/ \E e \in Execs, result \in EngineResults : ExecTranscribeChunk(e, result)
    \/ \E e \in Execs : ExecAfterTranscribe(e)
    \/ \E e \in Execs, outcome \in AnalysisOutcomes, heartbeat \in BOOLEAN :
          ExecAnalysis(e, outcome, heartbeat)
    \/ \E e \in Execs, delivery \in Deliveries : ExecComplete(e, delivery)
    \/ \E e \in Execs : ExecStageFails(e)
    \/ \E c \in Cycles : CycleFindOrphaned(c)
    \/ \E c \in Cycles : CycleRecover(c)
    \/ \E c \in Cycles : CycleFindRetry(c)
    \/ \E c \in Cycles : CycleRetry(c)
    \/ \E id \in StoredIds : ForceRetry(id)
    \/ \E k \in 1..Len(forced) : ForcedRun(k)

Spec == Init /\ [][Next]_vars

\* ------------------------------------------------------------------ claims
Docs == 1..Len(interviews)

\* The status changes of the job state machine.
AllowedTransitions ==
    { <<PENDING, PROCESSING>>, <<PROCESSING, TRANSCRIBING>>,
      <<TRANSCRIBING, ANALYZING>>, <<ANALYZING, COMPLETED>>,
      <<PENDING, FAILED>>, <<PROCESSING, FAILED>>, <<TRANSCRIBING, FAILED>>,
      <<ANALYZING, FAILED>>, <<FAILED, PENDING>> }

\* C1: every change of a job's stored status is PENDING->PROCESSING,
\* PROCESSING->TRANSCRIBING, TRANSCRIBING->ANALYZING, ANALYZING->COMPLETED,
\* a non-terminal status -> FAILED, or FAILED->PENDING; no other change of
\* the stored status ever happens.
C1_StatusFollowsStateMachine ==
    [][\A k \in Docs :
          \/ interviews'[k].status = interviews[k].status
          \/ <<interviews[k].status, interviews'[k].status>> \in AllowedTransitions]_vars

\* C2: in every reachable state every stored job has
\* retry_count <= max_retry_attempts.
C2_RetryCountWithinCap ==
    \A k \in Docs : interviews[k].retry_count <= max_retry_attempts

\* C2 witness: a job has reached the cap and a retry of it was refused.
C2_Witness ==
    \E k \in Docs :
        /\ interviews[k].retry_count = max_retry_attempts
        /\ interviews[k].status = FAILED
        /\ interviews[k].error = Some(ErrPermanent)

\* C3: after a retry has reset a job to PENDING, a pipeline pass re-entered
\* for that job holds it until it has left PENDING: a retried job is never
\* PENDING with no re-entered pass scheduled or running for it.
C3_RetriedJobIsDriven ==
    \A k \in Docs :
        (interviews[k].status = PENDING /\ interviews[k].retry_count > 0)
        => \E e \in Execs :
              /\ tasks[e].pc # "idle"
              /\ tasks[e].origin = "retry"
              /\ tasks[e].message_id = interviews[k].message_id

\* The scheduling the event loop gives: time passes, every scheduled
\* background task and every started recovery cycle takes its next step,
\* and recovery cycles keep being run.  Inbound messages and forced retries
\* are up to the outside world.
ExecStep(e) ==
    \/ ExecStart(e, NewId)
    \/ ExecMarkProcessing(e)
    \/ \E mp3_size \in ConvertedSizes, total_duration_ms \in Durations :
          ExecSplit(e, mp3_size, total_duration_ms, AUDIO_CHUNK_MINUTES)
    \/ ExecMarkTranscribing(e)
    \/ ExecProgress(e)
    \/ \E result \in EngineResults : ExecTranscribeChunk(e, result)
    \/ ExecAfterTranscribe(e)
    \/ \E outcome \in AnalysisOutcomes, heartbeat \in BOOLEAN :
          ExecAnalysis(e, outcome, heartbeat)
    \/ \E delivery \in Deliveries : ExecComplete(e, delivery)

CycleStep(c) ==
    \/ CycleFindOrphaned(c)
    \/ CycleRecover(c)
    \/ CycleFindRetry(c)
    \/ CycleRetry(c)

FairSpec ==
    /\ Spec
    /\ WF_vars(Tick)
    /\ \A e \in Execs : WF_vars(ExecStep(e))
    /\ \A c \in Cycles : WF_vars(CycleStep(c))

StoredWith(m, status) ==
    \E k \in Docs : interviews[k].message_id = m /\ interviews[k].status = status

FailedByPipeline(m) ==
    \E k \in Docs :
        /\ interviews[k].message_id = m
        /\ interviews[k].status = FAILED
        /\ interviews[k].error = Some(ErrPipeline)
        /\ interviews[k].retry_count < max_retry_attempts

\* C4: a job the pipeline's handler has marked FAILED with
\* retry_count < max_retry_attempts is eventually reset to PENDING, when
\* time passes and recovery cycles keep running.
C4_FailedJobEventuallyRetried ==
    \A m \in Messages : FailedByPipeline(m) ~> StoredWith(m, PENDING)

\* Another pass has reset the job since this pass read it: the stored job
\* is PENDING with more retries counted than the pass saw.
AlreadyReset(iv) ==
    LET cur == get_by_id(interviews, iv.id) IN
    /\ IsSome(cur)
    /\ Get(cur).status = PENDING
    /\ Get(cur).retry_count > iv.retry_count

\* C5: of two overlapping passes (recovery cycles, or a cycle and a forced
\* retry) that read the same FAILED job, at most one resets it: no pass
\* resets a FAILED job it has read once another pass has already reset it.
C5_OneResetPerFailure ==
    [][/\ \A c \in Cycles :
            (CycleRetry(c) /\ ~RetryCapReached(Head(cycles[c].retry)))
            => ~AlreadyReset(Head(cycles[c].retry))
       /\ \A k \in 1..Len(forced) :
            (ForcedRun(k) /\ forced[k].status = FAILED /\ ~RetryCapReached(forced[k]))
            => ~AlreadyReset(forced[k])]_vars

\* A pipeline execution holds the job with this id.
InFlight(id) ==
    \E e \in Execs : IsSome(tasks[e].interview) /\ Get(tasks[e].interview).id = id

\* C6: the recovery cycle neither reclassifies as orphaned nor re-enters the
\* pipeline for a job that a pipeline execution still holds.
C6_RecoveryLeavesLiveJobsAlone ==
    [][\A c \in Cycles :
          /\ CycleRecover(c) => ~InFlight(Head(cycles[c].orphaned).id)
          /\ (CycleRetry(c) /\ ~RetryCapReached(Head(cycles[c].retry)))
             => ~InFlight(Head(cycles[c].retry).id)]_vars

\* C7: the failed-job scan selects only jobs that are FAILED, below the
\* retry cap and last retried more than retry_delay_minutes ago; and a
\* recovery cycle never resets to PENDING a job stored with
\* retry_count = max_retry_attempts.
C7_ScanRespectsCapAndBackoff ==
    [][\A c \in Cycles :
          /\ CycleFindRetry(c) =>
                \A i \in 1..Len(cycles'[c].retry) :
                    LET iv == cycles'[c].retry[i] IN
                    /\ iv.status = FAILED
                    /\ iv.retry_count < max_retry_attempts
                    /\ IsSome(iv.last_retry_at)
                    /\ Get(iv.last_retry_at) > retry_delay_minutes
          /\ CycleRetry(c) =>
                LET cur == get_by_id(interviews, Head(cycles[c].retry).id)
                    new == get_by_id(interviews', Head(cycles[c].retry).id)
                IN (IsSome(cur) /\ Get(cur).retry_count = max_retry_attempts)
                   => Get(new).status # PENDING]_vars

\* C8: every job the orphan scan has selected is PROCESSING, TRANSCRIBING or
\* ANALYZING and was started more than max_processing_time_minutes ago.
C8_OrphanScanSelectsOnlyStuckJobs ==
    \A c \in Cycles : \A i \in 1..Len(cycles[c].orphaned) :
        LET iv == cycles[c].orphaned[i] IN
        /\ iv.status \in {PROCESSING, TRANSCRIBING, ANALYZING}
        /\ iv.status \notin {PENDING, COMPLETED, FAILED}
        /\ IsSome(iv.started_at)
        /\ Get(iv.started_at) > max_processing_time_minutes

\* C8 witness: an orphan scan has selected a job stuck in TRANSCRIBING.
C8_Witness ==
    \E c \in Cycles :
        /\ cycles[c].pc = "recover"
        /\ Len(cycles[c].orphaned) = 1
        /\ cycles[c].orphaned[1].status = TRANSCRIBING

PermanentlyFailedJob(doc) ==
    doc.status = FAILED /\ doc.retry_count = max_retry_attempts

\* C10: a retry of a job read with retry_count = max_retry_attempts - 1
\* stores it PENDING with retry_count = max_retry_attempts, and a job that
\* is FAILED with retry_count = max_retry_attempts stays so: nothing resets
\* it or changes its status again.
C10_FailureAtCapIsPermanent ==
    [][/\ \A c \in Cycles :
            (CycleRetry(c)
             /\ Head(cycles[c].retry).retry_count = max_retry_attempts - 1)
            => LET new == get_by_id(interviews', Head(cycles[c].retry).id) IN
               /\ Get(new).status = PENDING
               /\ Get(new).retry_count = max_retry_attempts
       /\ \A k \in Docs :
            PermanentlyFailedJob(interviews[k]) => PermanentlyFailedJob(interviews'[k])]_vars

\* C11: for every job, recovery cycles re-enter the pipeline at most
\* max_retry_attempts times in all.
C11_ReentriesWithinCap ==
    \A m \in Messages : reentries[m] <= max_retry_attempts

\* C12: a job that is FAILED at the retry cap has been reported to its owner
\* as permanently failed, and no job is so reported more than once.
C12_PermanentFailureReportedOnce ==
    \A k \in Docs :
        /\ notified[interviews[k].message_id].permanent <= 1
        /\ PermanentlyFailedJob(interviews[k])
           => notified[interviews[k].message_id].permanent = 1

\* The step in which pipeline execution e ends by marking its job FAILED.
EndsFailed(e) ==
    \/ ExecStageFails(e)
    \/ \E heartbeat \in BOOLEAN : ExecAnalysis(e, "raises", heartbeat)
    \/ ExecAfterTranscribe(e) /\ tasks'[e].pc = "idle"

\* C13: a pipeline execution that ends by marking its job FAILED has sent
\* exactly one failure message to the owner, whichever stage failed and with
\* or without heartbeat; a chunk's transcription sends the owner nothing,
\* failed or not.
C13_OneFailureNotification ==
    [][\A e \in Execs :
          /\ EndsFailed(e) =>
                notified'[tasks[e].message_id].failed
                    = notified[tasks[e].message_id].failed + 1
          /\ (\E result \in EngineResults : ExecTranscribeChunk(e, result))
             => notified' = notified]_vars

\* C14: a stored job in status ANALYZING or COMPLETED has a non-empty
\* transcript.
C14_TranscriptBeforeAnalyzing ==
    \A k \in Docs :
        interviews[k].status \in {ANALYZING, COMPLETED}
        => /\ IsSome(interviews[k].transcript)
           /\ Get(interviews[k].transcript) # << >>

\* C14 witness: a job is stored COMPLETED with its transcript.
C14_Witness ==
    \E k \in Docs :
        /\ interviews[k].status = COMPLETED
        /\ IsSome(interviews[k].transcript)
        /\ Len(Get(interviews[k].transcript)) > 0

\* C15: when the analysis raises or returns nothing the execution goes on to
\* the documents with analysis absent and the job is not marked FAILED.
C15_AnalysisFailureIsNotFatal ==
    [][\A e \in Execs :
          (\E outcome \in {"nothing", "raises"}, heartbeat \in BOOLEAN :
                ExecAnalysis(e, outcome, heartbeat))
          => /\ tasks'[e].pc = "documents"
             /\ Get(tasks'[e].interview).analysis = None
             /\ Get(get_by_id(interviews', Get(tasks[e].interview).id)).status # FAILED]_vars

\* C16: when a stage fails (download, conversion, every chunk failing,
\* analysis, documents) the job is stored FAILED with the error text, the
\* execution runs no later stage and nothing is scheduled in its place; when
\* no chunk gave text, no transcript is stored.
C16_StageFailureFailsTheJob ==
    [][\A e \in Execs :
          EndsFailed(e) =>
             LET id == Get(tasks[e].interview).id
                 new == get_by_id(interviews', id)
             IN /\ IsSome(new)
                /\ Get(new).status = FAILED
                /\ Get(new).error = Some(ErrPipeline)
                /\ tasks'[e] = IdleTask
                /\ \A f \in Execs \ {e} : tasks'[f] = tasks[f]
                /\ (tasks[e].pc = "transcribing") => Get(new).transcript = None]_vars

\* C16 witness: every chunk was tried, none gave text, and the job is stored
\* FAILED with the error text and without transcript, its execution over.
C16_Witness ==
    \E k \in Docs :
        /\ interviews[k].status = FAILED
        /\ interviews[k].error = Some(ErrPipeline)
        /\ interviews[k].chunks_total > 0
        /\ interviews[k].chunks_processed = interviews[k].chunks_total
        /\ interviews[k].transcript = None
        /\ \A e \in Execs : tasks[e].pc = "idle"

\* C17: every stored job has chunks_processed <= chunks_total (both are 0
\* until chunks_total is set).
C17_ProcessedWithinTotal ==
    \A k \in Docs : interviews[k].chunks_processed <= interviews[k].chunks_total

\* C17 witness: the last chunk of a job has been started.
C17_Witness ==
    \E k \in Docs :
        /\ interviews[k].chunks_total > 0
        /\ interviews[k].chunks_processed = interviews[k].chunks_total
        /\ interviews[k].status = TRANSCRIBING

\* ------------------------------------------------- one pipeline execution
\* What the engine answers for a chunk when one execution is followed on
\* its own: nothing, text without segments, one segment, two segments (the
\* second past the first minute of the chunk).
LoopResults ==
    { None,
      Some(<< >>),
      Some(<< Segment(65, 70, "a") >>),
      Some(<< Segment(5, 10, "a"), Segment(130, 135, "b") >>) }

\* settings.AUDIO_CHUNK_MINUTES: the default, or a longer chunk duration.
ChunkMinutes == { AUDIO_CHUNK_MINUTES, LongChunkMinutes }

\* A job of n chunks whose execution has stored TRANSCRIBING and is about to
\* call transcribe_chunks.
PipelineInit ==
    \E n \in 1..MaxLoopChunks, chunk_duration_minutes \in ChunkMinutes :
        LET iv == [mark_processing(Interview(1, "m1")) EXCEPT
                       !.chunks_total = n, !.status = TRANSCRIBING]
        IN
        /\ processed_messages = {"m1"}
        /\ interviews = << iv >>
        /\ tasks = [e \in Execs |->
                      IF e = 1
                      THEN [IdleTask EXCEPT !.pc = "transcribing",
                                            !.origin = "webhook",
                                            !.message_id = "m1",
                                            !.media = "payload",
                                            !.interview = Some(iv),
                                            !.chunks = split_into_chunks(
                                                n * chunk_duration_minutes * MsPerMinute,
                                                chunk_duration_minutes)]
                      ELSE IdleTask]
        /\ cycles = [c \in Cycles |-> IdleCycle]
        /\ forced = << >>
        /\ notified = [m \in Messages |-> NoNotices]
        /\ reentries = [m \in Messages |-> 0]
        /\ tracker = IdleTracker
        /\ sessions = NoSessions

PipelineNext ==
    \/ \E e \in Execs : ExecProgress(e)
    \/ \E e \in Execs, result \in LoopResults : ExecTranscribeChunk(e, result)
    \/ \E e \in Execs : ExecAfterTranscribe(e)
    \/ \E e \in Execs, outcome \in AnalysisOutcomes, heartbeat \in BOOLEAN :
          ExecAnalysis(e, outcome, heartbeat)
    \/ \E e \in Execs, delivery \in Deliveries : ExecComplete(e, delivery)

PipelineSpec == PipelineInit /\ [][PipelineNext]_vars

\* C18: the transcription call for chunk k starts with exactly k progress
\* callbacks made, the k-th for chunk k, whether the call then fails or not;
\* an execution that completes has made chunks_total callbacks.
C18_CallbackOncePerChunkStart ==
    [][\A e \in Execs :
          /\ (\E result \in LoopResults : ExecTranscribeChunk(e, result))
             => /\ tasks[e].calls = tasks[e].i + 1
                /\ Get(tasks[e].interview).chunks_processed = tasks[e].i + 1
          /\ (\E delivery \in Deliveries : ExecComplete(e, delivery))
             => /\ tasks[e].calls = Get(tasks[e].interview).chunks_total
                /\ tasks[e].i = Get(tasks[e].interview).chunks_total]_vars

\* The transcription of a chunk failed: it gave no text.
ChunkFailed(chunk_transcript) ==
    chunk_transcript = None \/ Get(chunk_transcript) = << >>

\* C18 witness: an execution of three chunks, one of which failed, is past
\* the analysis with three callbacks made.
C18_Witness ==
    \E e \in Execs :
        /\ tasks[e].pc = "documents"
        /\ tasks[e].calls = MaxLoopChunks
        /\ Len(tasks[e].chunks) = MaxLoopChunks
        /\ \E k \in 1..Len(tasks[e].results) : ChunkFailed(tasks[e].results[k])

\* The lines of a chunk with the chunk's own start offset added to the
\* minutes.
Shifted(lines, offset_minutes) ==
    [j \in 1..Len(lines) |->
        << Format02d(ParseInt(lines[j][1]) + offset_minutes), lines[j][2],
           Format02d(ParseInt(lines[j][3]) + offset_minutes), lines[j][4],
           lines[j][5] >>]

\* The start offset of the k-th of the chunks, in minutes.
StartOffset(chunks, k) == chunks[k][1] \div MsPerMinute

\* The transcript the first k chunk results should merge to: the shifted
\* lines of the chunks that succeeded, in chunk order, one blank line
\* between two of them, nothing for a chunk that failed.
RECURSIVE Merged(_, _, _)
Merged(results, chunks, k) ==
    IF k = 0 THEN << >>
    ELSE IF ChunkFailed(results[k]) THEN Merged(results, chunks, k - 1)
    ELSE IF Merged(results, chunks, k - 1) = << >>
    THEN Shifted(Get(results[k]), StartOffset(chunks, k))
    ELSE Merged(results, chunks, k - 1) \o << << >> >>
             \o Shifted(Get(results[k]), StartOffset(chunks, k))

\* C19: whatever chunks fail, the merged transcript is the rendered lines of
\* the chunks that succeeded, in ascending chunk order, each shifted by its
\* chunk's own start offset, one blank line between consecutive successful
\* chunks and nothing for a failed chunk.
C19_MergedTranscript ==
    \A e \in Execs :
        tasks[e].full_transcript =
            Merged(tasks[e].results, tasks[e].chunks, Len(tasks[e].results))

\* C19 witness: chunk 2 of 3 failed, chunks 1 and 3 succeeded.
C19_Witness ==
    \E e \in Execs :
        /\ Len(tasks[e].results) = 3
        /\ ~ChunkFailed(tasks[e].results[1])
        /\ ChunkFailed(tasks[e].results[2])
        /\ ~ChunkFailed(tasks[e].results[3])
        /\ tasks[e].full_transcript =
              Get(tasks[e].results[1]) \o << << >> >>
                  \o Shifted(Get(tasks[e].results[3]), 2 * AUDIO_CHUNK_MINUTES)

\* The loop of execution e is over.
LoopDone(e) ==
    /\ tasks[e].pc = "transcribing"
    /\ tasks[e].chunks # << >>
    /\ tasks[e].i = Len(tasks[e].chunks)

\* C20: transcribe_chunks returns None exactly when every chunk failed, and
\* a non-empty transcript when at least one chunk succeeded.
C20_NoneIffAllChunksFailed ==
    \A e \in Execs :
        LoopDone(e) =>
            LET returned == transcribe_chunks_result(tasks[e].full_transcript)
                allFailed == \A k \in 1..Len(tasks[e].results) :
                                 ChunkFailed(tasks[e].results[k])
            IN /\ (returned = None) <=> allFailed
               /\ ~allFailed => (IsSome(returned) /\ Get(returned) # << >>)

\* C20 witness: a loop over three chunks is over with one chunk failed and
\* one succeeded.
C20_Witness ==
    \E e \in Execs :
        /\ LoopDone(e)
        /\ Len(tasks[e].results) = MaxLoopChunks
        /\ ChunkFailed(tasks[e].results[1])
        /\ ~ChunkFailed(tasks[e].results[MaxLoopChunks])
        /\ transcribe_chunks_result(tasks[e].full_transcript) # None

\* C27: a transcript or an analysis that is stored is never cleared or
\* replaced by a later write to the store, whoever makes it.
C27_ResultsAreKept ==
    [][\A k \in Docs :
          /\ IsSome(interviews[k].transcript)
             => interviews'[k].transcript = interviews[k].transcript
          /\ IsSome(interviews[k].analysis)
             => interviews'[k].analysis = interviews[k].analysis]_vars

\* A step of pipeline execution e, the handler's included.
PipelineStep(e) == ExecStep(e) \/ ExecStageFails(e)

\* C28: a step of a pipeline execution leaves the retry_count and the
\* last_retry_at of every stored job as they were.
C28_PipelineKeepsRetryFields ==
    [][(\E e \in Execs : PipelineStep(e))
       => \A k \in Docs :
             /\ interviews'[k].retry_count = interviews[k].retry_count
             /\ interviews'[k].last_retry_at = interviews[k].last_retry_at]_vars

\* The status of the stage a task position belongs to.
StageStatus(pc) ==
    CASE pc = "processing" -> PROCESSING
      [] pc = "transcribing" -> TRANSCRIBING
      [] pc = "analyzing" -> ANALYZING

\* C29: the step that takes an execution into a stage (download and
\* conversion, transcription, analysis) is the step that stores the status
\* of that stage, so no call of a stage is made before its status is in the
\* store; and COMPLETED is stored only by the step that follows document
\* generation and delivery.
C29_StatusStoredBeforeStage ==
    [][/\ \A e \in Execs, pc \in {"processing", "transcribing", "analyzing"} :
            (tasks[e].pc \notin {pc, "chunk"} /\ tasks'[e].pc = pc)
            => LET new == get_by_id(interviews', Get(tasks'[e].interview).id) IN
               IsSome(new) /\ Get(new).status = StageStatus(pc)
       /\ \A k \in Docs :
            (interviews[k].status # COMPLETED /\ interviews'[k].status = COMPLETED)
            => \E e \in Execs, delivery \in Deliveries :
                  tasks[e].pc = "documents" /\ ExecComplete(e, delivery)]_vars

\* C29 witness: a job is stored COMPLETED, and its execution is over.
C29_Witness ==
    \E k \in Docs :
        /\ interviews[k].status = COMPLETED
        /\ IsSome(interviews[k].completed_at)
        /\ ~InFlight(interviews[k].id)

\* C30: a recovery cycle does not reset to PENDING a job that its own
\* orphan scan has reclassified to FAILED.
C30_NoRetryInTheReclassifyingCycle ==
    [][\A c \in Cycles :
          (CycleRetry(c) /\ ReEnters(Head(cycles[c].retry)))
          => Head(cycles[c].retry).id \notin cycles[c].recovered]_vars

\* ------------------------------------------------------- splitting audios
\* len(audio) of the audios split, in milliseconds: every 20 seconds up to
\* MaxSplitSteps steps, and one millisecond more than each.
SplitDurations ==
    {k * 20000 + r : k \in 0..MaxSplitSteps, r \in {0, 1}}

\* AudioProcessor(chunk_duration_minutes): short chunk durations and the
\* default.
SplitChunkMinutes == (1..MaxSplitChunkMinutes) \cup { AUDIO_CHUNK_MINUTES }

\* A job stored PROCESSING whose execution is about to download, convert
\* and split the audio.
SplitInit ==
    LET iv == mark_processing(Interview(1, "m1")) IN
    /\ processed_messages = {"m1"}
    /\ interviews = << iv >>
    /\ tasks = [e \in Execs |->
                  IF e = 1
                  THEN [IdleTask EXCEPT !.pc = "processing",
                                        !.origin = "webhook",
                                        !.message_id = "m1",
                                        !.media = "payload",
                                        !.interview = Some(iv)]
                  ELSE IdleTask]
    /\ cycles = [c \in Cycles |-> IdleCycle]
    /\ forced = << >>
    /\ notified = [m \in Messages |-> NoNotices]
    /\ reentries = [m \in Messages |-> 0]
    /\ tracker = IdleTracker
    /\ sessions = NoSessions

SplitNext ==
    \/ \E e \in Execs, mp3_size \in ConvertedSizes,
          total_duration_ms \in SplitDurations,
          chunk_duration_minutes \in SplitChunkMinutes :
          ExecSplit(e, mp3_size, total_duration_ms, chunk_duration_minutes)
    \/ \E e \in Execs : ExecMarkTranscribing(e)

SplitSpec == SplitInit /\ [][SplitNext]_vars

\* ceil(a / b) for a >= 0, b > 0.
CeilDiv(a, b) == (a + b - 1) \div b

\* The chunks are those of an audio of T milliseconds cut every D
\* milliseconds: ceil(T / D) chunks, the k-th starting at (k - 1) * D, each D
\* long but the last, which is T mod D long, or D when that is 0; each
\* chunk ends where the next starts and the last ends at T.
IsSplitOf(chunks, T, D) ==
    /\ Len(chunks) = CeilDiv(T, D)
    /\ \A k \in 1..Len(chunks) :
          /\ chunks[k][1] = (k - 1) * D
          /\ chunks[k][2] = IF k < Len(chunks) THEN D
                            ELSE IF T % D = 0 THEN D ELSE T % D
          /\ chunks[k][1] + chunks[k][2] =
                IF k < Len(chunks) THEN chunks[k + 1][1] ELSE T
    /\ T < D => Len(chunks) = 1

\* C21: for every chunk duration D > 0 and audio duration T > 0 the split
\* gives ceil(T / D) chunks starting at 0, D, 2D, ..., all D long but the
\* last, which is T mod D long (D when T is a multiple of D); they cover
\* [0, T) with no gap and no overlap, and T < D gives one chunk.  The job's
\* chunks_total is their number.
C21_SplitCoversTheAudio ==
    [][\A e \in Execs, mp3_size \in ConvertedSizes,
          T \in SplitDurations, D \in SplitChunkMinutes :
          (T > 0 /\ ~ConvertRaises(mp3_size) /\ ExecSplit(e, mp3_size, T, D))
          => /\ IsSplitOf(tasks'[e].chunks, T, D * MsPerMinute)
             /\ Get(tasks'[e].interview).chunks_total = Len(tasks'[e].chunks)]_vars

\* C21 witness: 37 minutes by chunks of 15 minutes are split into chunks of
\* 15, 15 and 7 minutes.
C21_Witness ==
    \E e \in Execs :
        /\ tasks[e].pc = "split"
        /\ tasks[e].chunks = << << 0, 15 * MsPerMinute >>,
                                << 15 * MsPerMinute, 15 * MsPerMinute >>,
                                << 30 * MsPerMinute, 7 * MsPerMinute >> >>

\* C22: no stored job is TRANSCRIBING with chunks_total = 0.
C22_NoTranscribingWithoutChunks ==
    \A k \in Docs :
        interviews[k].status = TRANSCRIBING => interviews[k].chunks_total > 0

InStream(segment, offset_seconds) ==
    [ start |-> segment.start + offset_seconds,
      end   |-> segment.end + offset_seconds,
      text  |-> segment.text ]

MessageIds == << "m1", "m2", "m3", "m4", "m5", "m6", "m7" >>
IntakeMessages == {MessageIds[i] : i \in 1..(MAX_CACHE_SIZE + 1)}

\* datetime.now() when an Interview is constructed: a later millisecond than
\* every creation so far, or the millisecond of the latest creation.
ClockIds ==
    {NewId} \cup (IF interviews = << >> THEN {}
                  ELSE {interviews[Len(interviews)].id})

IntakeInit ==
    /\ processed_messages = {}
    /\ interviews = << >>
    /\ tasks = [e \in Execs |-> IdleTask]
    /\ cycles = [c \in Cycles |-> IdleCycle]
    /\ forced = << >>
    /\ notified = [m \in IntakeMessages |-> NoNotices]
    /\ reentries = [m \in IntakeMessages |-> 0]
    /\ tracker = IdleTracker
    /\ sessions = NoSessions

IntakeNext ==
    \/ \E m \in IntakeMessages, media \in {"payload", "string"} : Webhook(m, media)
    \/ \E e \in Execs, id \in ClockIds : ExecStart(e, id)
    \/ \E e \in Execs : ExecMarkProcessing(e)
    \/ \E e \in Execs : ExecStageFails(e)

IntakeSpec == IntakeInit /\ [][IntakeNext]_vars

\* C25: the webhook hands a message to the pipeline at most once: never a
\* message whose job is stored already or whose pipeline execution is under
\* way, however many other messages were accepted in between.
C25_StartedOncePerMessage ==
    [][\A m \in IntakeMessages, media \in {"payload", "string"} :
          Webhook(m, media) =>
             /\ ~HasMessageId(interviews, m)
             /\ \A e \in Execs : tasks[e].message_id # m]_vars

\* A step in which the write of a pipeline execution changes no document
\* but the one of its own message.
WritesOnlyItsOwnJob ==
    \A e \in Execs :
       PipelineStep(e) =>
          \A k \in Docs :
             interviews'[k] # interviews[k] =>
                interviews[k].message_id = tasks[e].message_id

\* C26: two stored jobs never have the same id, jobs created in the same
\* millisecond included, and an update by id changes no job but the one of
\* the execution that writes.
C26_IdsAreUnique ==
    [][/\ \A j, k \in 1..Len(interviews') :
             j # k => interviews'[j].id # interviews'[k].id
       /\ WritesOnlyItsOwnJob]_vars

\* -------------------------------------------------- order of the chunk calls
\* C31: the engine is called for the chunks one at a time in ascending order
\* of their start: when the call for a chunk returns, every earlier chunk's
\* call has returned (with a transcript or with none), every earlier chunk
\* ends no later than this one starts, no call is under way in any other
\* execution of the job, and the loop goes on to the next chunk whether the
\* call succeeded or failed.
C31_ChunkCallsInOrder ==
    [][\A e \in Execs, result \in LoopResults :
          ExecTranscribeChunk(e, result) =>
             LET t == tasks[e] IN
             /\ Len(t.results) = t.i
             /\ t.calls = t.i + 1
             /\ \A j \in 1..t.i :
                   /\ t.chunks[j][1] < t.chunks[t.i + 1][1]
                   /\ t.chunks[j][1] + t.chunks[j][2] <= t.chunks[t.i + 1][1]
             /\ \A f \in Execs \ {e} :
                   tasks[f].pc = "chunk" =>
                      Get(tasks[f].interview).id # Get(t.interview).id
             /\ tasks'[e].i = t.i + 1
             /\ tasks'[e].pc = "transcribing"]_vars

\* The call for the third chunk is under way after the call for the second
\* one failed.
C31_Witness ==
    \E e \in Execs :
        /\ tasks[e].pc = "chunk"
        /\ tasks[e].i = 2
        /\ IsSome(tasks[e].results[1])
        /\ ~IsSome(tasks[e].results[2])

\* ------------------------------------------------- the size of the mp3
\* C32: when the converted audio is over the ceiling of 25 MB the step
\* that converts ends the execution: the stored job goes from PROCESSING to
\* FAILED with the error recorded, its chunks_total stays unset, no chunk
\* is held and no call is made; and a job that failed so stays FAILED with
\* no chunks, never TRANSCRIBING.
C32_TooLargeFailsBeforeChunking ==
    [][/\ \A e \in Execs, mp3_size \in ConvertedSizes,
             T \in SplitDurations, D \in SplitChunkMinutes :
             (mp3_size > max_converted_size_mb * BytesPerMb
                 /\ ExecSplit(e, mp3_size, T, D)) =>
                LET k == FirstWithId(interviews, Get(tasks[e].interview).id, 1) IN
                /\ interviews[k].status = PROCESSING
                /\ interviews'[k].status = FAILED
                /\ IsSome(interviews'[k].error)
                /\ interviews'[k].chunks_total = 0
                /\ tasks'[e] = IdleTask
       /\ \A k \in Docs :
             interviews[k].status = FAILED =>
                /\ interviews'[k].status = FAILED
                /\ interviews'[k].chunks_total = 0
                /\ \A e \in Execs : tasks'[e].pc = "idle"]_vars

\* The job has failed on the size of its mp3 and its owner has been told.
C32_Witness ==
    \E k \in Docs :
        /\ interviews[k].status = FAILED
        /\ interviews[k].error = Some(ErrPipeline)
        /\ interviews[k].chunks_total = 0
        /\ notified[interviews[k].message_id].failed = 1
        /\ \A e \in Execs : tasks[e].pc = "idle"

\* ------------------------------------------------------ the ProgressTracker
\* One ProgressTracker followed on its own: its caller sends progress
\* messages, forced or not, and runs an operation with a heartbeat.
\*   main      where the caller is: "idle", "sending" (inside
\*             send_progress_message), "initial", "operation", "cancel",
\*             "final" (inside run_with_heartbeat)
\*   hb        the heartbeat task: "none", "sleeping", "sending",
\*             "cancelling" (cancel() called, CancelledError not yet
\*             thrown into it), "done"
\*   op        how the operation ended: "none", "ok", "raises"
\*   last_age  time.time() - self.last_message_time
\*   call_age, hb_call_age   time since current_time was read by the call of
\*             send_progress_message under way in the caller, in the task
\*   slept     time since the heartbeat task went to sleep
\*   issue_age time since a message was last handed to the provider
\*   sent      the messages handed to the provider, in order
\*   returned  how the last call of send_progress_message ended
\* Times are in seconds and saturate at AgeCap; the time of a call or of a
\* sleep runs while the call or the sleep is under way.
AgeCap == heartbeat_interval + ClockStepSeconds

NewTracker ==
    [ main |-> "idle", hb |-> "none", op |-> "none",
      last_age |-> AgeCap, call_age |-> 0, hb_call_age |-> 0, slept |-> 0,
      issue_age |-> AgeCap, sent |-> << >>, returned |-> "none" ]

Later(age) == Min(age + ClockStepSeconds, AgeCap)

\* A limiter that lets every message through.
MayNotify_IgnoresInterval(force, last_age) == TRUE

\* "if force or (current_time - self.last_message_time) >=
\* self.min_message_interval"
MayNotify(force, last_age) == force \/ last_age >= min_message_interval

\* The message is handed to the provider.
Issued(t, kind) ==
    [t EXCEPT !.sent = Append(t.sent, kind), !.issue_age = 0,
              !.returned = "none"]

TrackerTick ==
    /\ tracker' = [tracker EXCEPT
          !.last_age = Later(tracker.last_age),
          !.call_age = IF tracker.main \in {"sending", "initial", "final"}
                       THEN Later(tracker.call_age) ELSE tracker.call_age,
          !.hb_call_age = IF tracker.hb = "sending"
                          THEN Later(tracker.hb_call_age) ELSE tracker.hb_call_age,
          !.slept = IF tracker.hb = "sleeping"
                    THEN Later(tracker.slept) ELSE tracker.slept,
          !.issue_age = Later(tracker.issue_age)]
    /\ UNCHANGED << sessions, processed_messages, interviews, tasks, cycles,
                    forced, notified, reentries >>

TrackerOnly ==
    UNCHANGED << sessions, processed_messages, interviews, tasks, cycles,
                 forced, notified, reentries >>

\* send_progress_message(message, force) called by the code that holds the
\* tracker: current_time is read, and the message is sent or dropped.
SendProgressBegin(force) ==
    /\ tracker.main = "idle"
    /\ Len(tracker.sent) < MaxSent
    /\ tracker' =
          IF MayNotify(force, tracker.last_age)
          THEN [Issued(tracker, IF force THEN "forced" ELSE "progress")
                   EXCEPT !.main = "sending", !.call_age = 0]
          ELSE [tracker EXCEPT !.returned = "dropped"]
    /\ TrackerOnly

\* The provider's send returns: self.last_message_time = current_time.
SendProgressEnd ==
    /\ tracker.main = "sending"
    /\ tracker' = [tracker EXCEPT !.main = "idle",
                                  !.last_age = tracker.call_age,
                                  !.returned = "sent"]
    /\ TrackerOnly

\* run_with_heartbeat: the initial message is sent with force = True.
RunStart ==
    /\ tracker.main = "idle"
    /\ tracker.hb \in {"none", "done"}
    /\ Len(tracker.sent) + 1 < MaxSent
    /\ tracker' = [Issued(tracker, "initial")
                      EXCEPT !.main = "initial", !.call_age = 0, !.op = "none"]
    /\ TrackerOnly

\* The initial message is out; asyncio.create_task(self._heartbeat_loop(...));
\* the operation is awaited.
RunOperation ==
    /\ tracker.main = "initial"
    /\ tracker' = [tracker EXCEPT !.main = "operation",
                                  !.last_age = tracker.call_age,
                                  !.returned = "sent",
                                  !.hb = "sleeping", !.slept = 0]
    /\ TrackerOnly

\* _heartbeat_loop: asyncio.sleep(self.heartbeat_interval) is over; the
\* heartbeat message goes to send_progress_message without force.
HeartbeatWake ==
    /\ tracker.hb = "sleeping"
    /\ tracker.slept >= heartbeat_interval
    /\ Len(tracker.sent) + 1 < MaxSent
    /\ tracker' =
          IF MayNotify(FALSE, tracker.last_age)
          THEN [Issued(tracker, "heartbeat")
                   EXCEPT !.hb = "sending", !.hb_call_age = 0]
          ELSE [tracker EXCEPT !.slept = 0, !.returned = "dropped"]
    /\ TrackerOnly

\* The heartbeat's send returns; the loop sleeps again.
HeartbeatSent ==
    /\ tracker.hb = "sending"
    /\ tracker' = [tracker EXCEPT !.hb = "sleeping", !.slept = 0,
                                  !.last_age = tracker.hb_call_age,
                                  !.returned = "sent"]
    /\ TrackerOnly

\* An end of the operation that leaves the heartbeat task alone and goes on
\* to the final message.
OperationEnds_NoCancel(outcome) ==
    /\ tracker.main = "operation"
    /\ tracker' = [Issued(tracker, IF outcome = "ok" THEN "completed" ELSE "failed")
                      EXCEPT !.main = "final", !.op = outcome, !.call_age = 0]
    /\ TrackerOnly

\* The operation returns or raises: heartbeat_task.cancel(), then
\* "await heartbeat_task".
OperationEnds(outcome) ==
    /\ tracker.main = "operation"
    /\ tracker' = [tracker EXCEPT !.main = "cancel", !.op = outcome,
                                  !.hb = "cancelling"]
    /\ TrackerOnly

\* CancelledError is thrown into the heartbeat task where it waits (in the
\* sleep or in the send); the loop logs and raises it again: the task is
\* over, and a send under way never sets last_message_time.
HeartbeatCancelled ==
    /\ tracker.hb = "cancelling"
    /\ tracker' = [tracker EXCEPT !.hb = "done"]
    /\ TrackerOnly

\* "await heartbeat_task" raises CancelledError, which is passed over; the
\* completion message or the failure message is sent with force = True.
RunFinal ==
    /\ tracker.main = "cancel"
    /\ tracker.hb = "done"
    /\ tracker' = [Issued(tracker, IF tracker.op = "ok" THEN "completed" ELSE "failed")
                      EXCEPT !.main = "final", !.call_age = 0]
    /\ TrackerOnly

\* The final message is out; run_with_heartbeat returns the result or
\* raises the operation's exception again.
RunEnds ==
    /\ tracker.main = "final"
    /\ tracker' = [tracker EXCEPT !.main = "idle",
                                  !.last_age = tracker.call_age,
                                  !.returned = "sent"]
    /\ TrackerOnly

TrackerInit ==
    /\ processed_messages = {}
    /\ interviews = << >>
    /\ tasks = [e \in Execs |-> IdleTask]
    /\ cycles = [c \in Cycles |-> IdleCycle]
    /\ forced = << >>
    /\ notified = [m \in Messages |-> NoNotices]
    /\ reentries = [m \in Messages |-> 0]
    /\ tracker = NewTracker
    /\ sessions = NoSessions

TrackerNext ==
    \/ TrackerTick
    \/ \E force \in BOOLEAN : SendProgressBegin(force)
    \/ SendProgressEnd
    \/ RunStart
    \/ RunOperation
    \/ HeartbeatWake
    \/ HeartbeatSent
    \/ \E outcome \in {"ok", "raises"} : OperationEnds(outcome)
    \/ HeartbeatCancelled
    \/ RunFinal
    \/ RunEnds

TrackerSpec == TrackerInit /\ [][TrackerNext]_vars

FinalKinds == {"completed", "failed"}
NotForcedKinds == {"progress", "heartbeat"}
Last(seq) == seq[Len(seq)]
Sends == Len(tracker'.sent) = Len(tracker.sent) + 1

\* C33: the final message of run_with_heartbeat, of completion or of
\* failure, is sent only when the heartbeat task has been cancelled and is
\* over; a heartbeat message is sent only while the operation is awaited,
\* so none follows the final message; and no heartbeat task is alive once
\* run_with_heartbeat has returned or raised.
C33_HeartbeatOverBeforeFinal ==
    [][/\ (Sends /\ Last(tracker'.sent) \in FinalKinds) =>
             /\ tracker.hb = "done"
             /\ tracker.main = "cancel"
             /\ Last(tracker'.sent) =
                   (IF tracker.op = "ok" THEN "completed" ELSE "failed")
       /\ (Sends /\ Last(tracker'.sent) = "heartbeat") =>
             /\ tracker.main = "operation"
             /\ tracker.sent # << >>
             /\ Last(tracker.sent) \notin FinalKinds
       /\ tracker'.main \in {"final", "idle", "sending"} =>
             tracker'.hb \in {"none", "done"}]_vars

\* run_with_heartbeat has ended on the error path after a heartbeat message:
\* initial, heartbeat, failed.
C33_Witness ==
    /\ tracker.main = "idle"
    /\ tracker.op = "raises"
    /\ tracker.hb = "done"
    /\ tracker.sent = << "initial", "heartbeat", "failed" >>

\* C34: a message without force is sent only when min_message_interval has
\* passed since a message was last sent through the tracker, and is
\* dropped otherwise, nothing being kept for later; a message with force
\* is always sent; when the send of any message returns, the interval runs
\* from the moment that message was sent.
C34_RateLimit ==
    [][/\ (Sends /\ Last(tracker'.sent) \in NotForcedKinds) =>
             tracker.issue_age >= min_message_interval
       /\ (SendProgressBegin(FALSE) /\ tracker.issue_age < min_message_interval) =>
             /\ tracker'.sent = tracker.sent
             /\ tracker'.main = "idle"
             /\ tracker'.returned = "dropped"
       /\ SendProgressBegin(TRUE) =>
             (Sends /\ Last(tracker'.sent) = "forced")
       /\ tracker'.returned = "dropped" => tracker'.sent = tracker.sent
       /\ (SendProgressEnd \/ RunOperation \/ HeartbeatSent \/ RunEnds) =>
             /\ tracker'.last_age = tracker.issue_age
             /\ tracker'.sent = tracker.sent]_vars

\* After a forced message and, 30 seconds or more later, one without force,
\* a message without force has just been dropped 20 seconds after the last.
C34_Witness ==
    /\ tracker.sent = << "forced", "progress" >>
    /\ tracker.returned = "dropped"
    /\ tracker.main = "idle"
    /\ tracker.issue_age = min_message_interval - ClockStepSeconds

\* ------------------------------------------------ delivery of the documents
\* C35: a job is stored COMPLETED, and its completion message sent, only
\* when the transcript document has been delivered to the owner; when the
\* upload or the send of the document fails the job is stored FAILED and no
\* completion message is sent.
C35_CompletedOnlyAfterDelivery ==
    [][\A e \in Execs, delivery \in Deliveries :
          ExecComplete(e, delivery) =>
             LET m == tasks[e].message_id
                 new == get_by_id(interviews', Get(tasks[e].interview).id)
             IN
             IF delivery = "sent"
             THEN Get(new).status = COMPLETED => notified'[m].transcripts >= 1
             ELSE /\ Get(new).status = FAILED
                  /\ notified'[m].completions = notified[m].completions]_vars

\* ------------------------------------------------------ COMPLETED is final
\* C36: a job stored COMPLETED stays COMPLETED, whatever recovery cycles,
\* forced retries and late writes of pipeline executions do.
C36_CompletedIsTerminal ==
    [][\A k \in Docs :
          interviews[k].status = COMPLETED => interviews'[k].status = COMPLETED]_vars

\* ------------------------------------------------------------- the cleanup
\* The collection on its own under cleanup_old.  Each job carries
\* created_age, the whole days since its created_at.
CleanupDays == { MinCleanupDays - 1, MinCleanupDays, DefaultCleanupDays }
CleanupAges ==
    { MinCleanupDays, MinCleanupDays + 1, DefaultCleanupDays, DefaultCleanupDays + 1 }

\* A filter on the age alone.
ToDelete_AnyStatus(doc, days_old) == doc.created_age > days_old

\* The filter of delete_many: "created_at": {"$lt": cutoff_date}, with
\* cutoff_date = datetime.now() - timedelta(days = days_old), and
\* "status": {"$in": [COMPLETED, FAILED]}.
ToDelete(doc, days_old) ==
    /\ doc.created_age > days_old
    /\ doc.status \in {COMPLETED, FAILED}

RECURSIVE delete_many(_, _)
delete_many(docs, days_old) ==
    IF docs = << >> THEN << >>
    ELSE IF ToDelete(Head(docs), days_old)
    THEN delete_many(Tail(docs), days_old)
    ELSE << Head(docs) >> \o delete_many(Tail(docs), days_old)

\* scripts/recovery.py cleanup_old(days): fewer than 7 days are refused,
\* otherwise RecoveryService.cleanup_old_interviews(days).
CleanupOld(days) ==
    /\ interviews' = IF days < MinCleanupDays THEN interviews
                     ELSE delete_many(interviews, days)
    /\ UNCHANGED << tracker, sessions, processed_messages, tasks, cycles,
                    forced, notified, reentries >>

\* A day passes.
CleanupDayPasses ==
    /\ interviews' = [k \in 1..Len(interviews) |->
          [interviews[k] EXCEPT !.created_age =
              Min(interviews[k].created_age + 1, DefaultCleanupDays + 1)]]
    /\ UNCHANGED << tracker, sessions, processed_messages, tasks, cycles,
                    forced, notified, reentries >>

\* The job with the given id, in any status and of any age.
StoredJob(id, status, age) ==
    [Interview(id, "m1") EXCEPT !.status = status] @@ [created_age |-> age]

CleanupInit ==
    /\ \E n \in 0..MaxCleanupDocs :
          \E status \in [1..n -> InterviewStatus], age \in [1..n -> CleanupAges] :
             interviews = [k \in 1..n |-> StoredJob(k, status[k], age[k])]
    /\ processed_messages = {}
    /\ tasks = [e \in Execs |-> IdleTask]
    /\ cycles = [c \in Cycles |-> IdleCycle]
    /\ forced = << >>
    /\ notified = [m \in Messages |-> NoNotices]
    /\ reentries = [m \in Messages |-> 0]
    /\ tracker = IdleTracker
    /\ sessions = NoSessions

CleanupNext ==
    \/ \E days \in CleanupDays : CleanupOld(days)
    \/ CleanupDayPasses

CleanupSpec == CleanupInit /\ [][CleanupNext]_vars

\* C37: a cleanup deletes a job only if its status is COMPLETED or FAILED
\* and it was created before the cutoff: every job in PENDING, PROCESSING,
\* TRANSCRIBING or ANALYZING and every job not older than the cutoff is
\* still stored, and every job stored afterwards is one stored before,
\* unchanged and in the same order.
C37_CleanupDeletesOnlyOldFinished ==
    [][\A days \in CleanupDays :
          CleanupOld(days) =>
             /\ \A k \in Docs :
                   (interviews[k].status \notin {COMPLETED, FAILED}
                      \/ interviews[k].created_age <= days) =>
                   \E j \in 1..Len(interviews') : interviews'[j] = interviews[k]
             /\ \A j \in 1..Len(interviews') :
                   \E k \in Docs : interviews'[j] = interviews[k]
             /\ \A i, j \in 1..Len(interviews') :
                   i < j => interviews'[i].id < interviews'[j].id]_vars

\* Job 1 has been deleted; job 2, as old but PROCESSING, is what is left.
C37_Witness ==
    /\ Len(interviews) = 1
    /\ interviews[1].id = 2
    /\ interviews[1].status = PROCESSING
    /\ interviews[1].created_age = DefaultCleanupDays + 1

\* ------------------------------------------------ sessions and text messages
\* The audio messages and the texts the user sends in the session
\* specification.  A text typed as custom instructions stands for itself.
SessionMessages == { "m1", "m2" }
YoutubeMessage == "youtube"
Texts == { "custom", "focus", "detail", "sim", "link" }
Confirmations == { "sim" }
CustomPromptId == "custom_prompt"

\* The instructions a job holds before its Interview is created.
Taken(t) == IF t.pc \in { "clearing", "prompted" } THEN t.prompt ELSE None

\* Instructions the user has not typed before: held by no session, job or
\* Interview.
Unused(text) ==
    /\ \A u \in Users :
          HasSession(sessions, u) =>
              get_context_value(sessions[u], "custom_instructions") # Some(text)
    /\ \A e \in Execs : tasks[e].prompt # Some(text)
    /\ \A k \in DOMAIN interviews : interviews[k].custom_instructions # Some(text)

\* process_youtube_confirmation: nothing happens unless the session is
\* WAITING_YOUTUBE_CONFIRMATION; then the session is cleared.
process_youtube_confirmation(store, user_id) ==
    IF is_waiting_for_youtube_confirmation(store, user_id)
    THEN save_session(store, user_id, clear_state(store[user_id]))
    ELSE store

\* _handle_text_message(from_number, text): instructions when the user is
\* asked for them, else an answer to the YouTube question when one is open,
\* else a YouTube link (the download is scheduled), else a command, of which
\* "custom" asks for instructions.
TextMessage(user_id, text) ==
    IF IsWaiting(sessions, user_id, WAITING_CUSTOM_INSTRUCTIONS)
    THEN /\ Unused(text)
         /\ sessions' = process_custom_instructions(sessions, user_id, text)
         /\ UNCHANGED << tracker, processed_messages, interviews, tasks, cycles,
                         forced, notified, reentries >>
    ELSE IF is_waiting_for_youtube_confirmation(sessions, user_id)
    THEN /\ sessions' = process_youtube_confirmation(sessions, user_id)
         /\ IF text \in Confirmations
            THEN /\ FreeSlots # {}
                 /\ tasks' = Schedule(tasks, "youtube", YoutubeMessage, "payload")
            ELSE UNCHANGED tasks
         /\ UNCHANGED << tracker, processed_messages, interviews, cycles,
                         forced, notified, reentries >>
    ELSE IF text = "link"
    THEN /\ FreeSlots # {}
         /\ tasks' = [tasks EXCEPT ![FreeSlot] =
                        [IdleTask EXCEPT !.pc = "yt_busy", !.origin = "youtube",
                                         !.message_id = YoutubeMessage]]
         /\ UNCHANGED << tracker, sessions, processed_messages, interviews,
                         cycles, forced, notified, reentries >>
    ELSE /\ text = "custom"
         /\ sessions' = set_waiting_for_custom_instructions(sessions, user_id,
                                                            CustomPromptId)
         /\ UNCHANGED << tracker, processed_messages, interviews, tasks, cycles,
                         forced, notified, reentries >>

\* _process_youtube_link_in_background: set_user_busy
YtBusy(e) ==
    /\ tasks[e].pc = "yt_busy"
    /\ sessions' = SetWaiting(sessions, From(tasks[e].message_id), BUSY,
                              [ task |-> "youtube" ])
    /\ tasks' = [tasks EXCEPT ![e].pc = "yt_download"]
    /\ UNCHANGED << tracker, processed_messages, interviews, cycles,
                    forced, notified, reentries >>

\* How the download and the sending of the file end.
YtOutcomes == { "sent", "send_fails", "download_error", "error" }

\* download_video and send_video_message / send_audio_message: after a sent
\* file set_waiting_for_youtube_confirmation; after a file that could not be
\* sent, or a YouTubeDownloadError, clear_session; after another exception
\* only a message.
YtDownload(e, outcome) ==
    LET user_id == From(tasks[e].message_id) IN
    /\ tasks[e].pc = "yt_download"
    /\ sessions' =
          CASE outcome = "sent" ->
                   SetWaiting(sessions, user_id, WAITING_YOUTUBE_CONFIRMATION,
                              [ step |-> "confirmation" ])
            [] outcome \in { "send_fails", "download_error" } ->
                   clear_session(sessions, user_id)
            [] OTHER -> sessions
    /\ tasks' = [tasks EXCEPT ![e].pc = "yt_finally", ![e].yt = outcome]
    /\ UNCHANGED << tracker, processed_messages, interviews, cycles,
                    forced, notified, reentries >>

\* "finally: await session_manager.clear_session(from_number)", and the task
\* is over.
YtFinally(e) ==
    /\ tasks[e].pc = "yt_finally"
    /\ sessions' = clear_session(sessions, From(tasks[e].message_id))
    /\ tasks' = [tasks EXCEPT ![e] = IdleTask]
    /\ UNCHANGED << tracker, processed_messages, interviews, cycles,
                    forced, notified, reentries >>

\* A session past expires_at: get_session deletes it and returns None.
SessionExpires(user_id) ==
    /\ HasSession(sessions, user_id)
    /\ sessions' = IF DOMAIN sessions = { user_id } THEN NoSessions
                   ELSE [u \in DOMAIN sessions \ { user_id } |-> sessions[u]]
    /\ UNCHANGED << tracker, processed_messages, interviews, tasks, cycles,
                    forced, notified, reentries >>

SessionInit ==
    /\ processed_messages = {}
    /\ interviews = << >>
    /\ tasks = [e \in Execs |-> IdleTask]
    /\ cycles = [c \in Cycles |-> IdleCycle]
    /\ forced = << >>
    /\ notified = [m \in SessionMessages \cup { YoutubeMessage } |-> NoNotices]
    /\ reentries = [m \in SessionMessages \cup { YoutubeMessage } |-> 0]
    /\ tracker = IdleTracker
    /\ sessions = NoSessions

SessionNext ==
    \/ \E m \in SessionMessages : Webhook(m, "payload")
    \/ \E u \in Users, text \in Texts : TextMessage(u, text)
    \/ \E e \in Execs : ExecCheckSession(e)
    \/ \E e \in Execs : ExecTakeInstructions(e)
    \/ \E e \in Execs : ExecClearSession(e)
    \/ \E e \in Execs : ExecStart(e, NewId)
    \/ \E e \in Execs : ExecMarkProcessing(e)
    \/ \E e \in Execs : ExecStageFails(e)
    \/ \E e \in Execs : YtBusy(e)
    \/ \E e \in Execs, outcome \in YtOutcomes : YtDownload(e, outcome)
    \/ \E e \in Execs : YtFinally(e)
    \/ \E u \in Users : SessionExpires(u)

SessionSpec == SessionInit /\ [][SessionNext]_vars

\* C38: a session becomes WAITING_AUDIO only from
\* WAITING_CUSTOM_INSTRUCTIONS, by the text that gives the instructions
\* (which changes nothing in another state); the audio job that takes the
\* stored instructions clears the session to IDLE with an empty context; and
\* one set of instructions is held by at most one job.
C38_InstructionsForOneJob ==
    [][ /\ \A u \in Users :
            IsWaiting(sessions', u, WAITING_AUDIO) =>
                \/ IsWaiting(sessions, u, WAITING_AUDIO)
                \/ /\ IsWaiting(sessions, u, WAITING_CUSTOM_INSTRUCTIONS)
                   /\ \E text \in Texts : TextMessage(u, text)
        /\ \A e \in Execs :
            ExecClearSession(e) =>
                \/ ~HasSession(sessions', From(tasks[e].message_id))
                \/ sessions'[From(tasks[e].message_id)] = NewSession
        /\ \A text \in Texts :
            Cardinality({e \in Execs : Taken(tasks'[e]) = Some(text)})
              + Cardinality({k \in DOMAIN interviews' :
                               interviews'[k].custom_instructions = Some(text)})
              <= 1
      ]_vars

\* C39: the YouTube task that downloaded the video and sent the file ends
\* with the session waiting for the YouTube confirmation.
C39_WaitsForConfirmation ==
    [][ \A e \in Execs :
            YtFinally(e) /\ tasks[e].yt = "sent" =>
                IsWaiting(sessions', From(tasks[e].message_id),
                          WAITING_YOUTUBE_CONFIRMATION)
      ]_vars

====
